---- MODULE Spec2Model ----
(***************************************************************************)
(* Ledger consistency engine of the accounting backend: account balances,  *)
(* budget allocations with rolling periods, and the transaction            *)
(* create / update / delete handlers of app/routers/transactions.py.       *)
(*                                                                         *)
(* Conventions.  Money (Python float) is modelled in integer minor units.  *)
(* Optional integer ids use None (ids are > 0 in every request schema).    *)
(* A datetime is a record [y, m, d, h]; the unset datetime is NoDate.      *)
(***************************************************************************)
EXTENDS Integers, Sequences, FiniteSets, TLC

None == 0

\* ------------------------------------------------------------------ bounds
MaxOps == 2
MaxBudgetOps == 3
MaxRolls == 2
MaxSharedOps == 2
MaxCurrencyOps == 2

\* ------------------------------------------------------------ enumerations
DEBIT == "debit"
CREDIT == "credit"
TRANSFER == "transfer"
TransactionType == {DEBIT, CREDIT, TRANSFER}

SAVINGS == "savings"
BUDGET == "budget"
GOAL == "goal"
AllocationType == {SAVINGS, BUDGET, GOAL}

DAILY == "daily"
WEEKLY == "weekly"
MONTHLY == "monthly"
QUARTERLY == "quarterly"
NoFrequency == "none"
BudgetPeriodFrequency == {DAILY, WEEKLY, MONTHLY, QUARTERLY}

NoCadence == "none"
RecurrenceFrequency == {"monthly", "quarterly", "semi_annual", "annual"}

PHP == "PHP"
USD == "USD"
EUR == "EUR"
CurrencyType == {PHP, USD, EUR, "GBP", "JPY", "AUD", "CAD", "CHF", "CNY", "SGD"}
NoCurrency == "none"

\* ---------------------------------------------------------------- datetime
NoDate == [y |-> 0, m |-> 0, d |-> 0, h |-> 0]

DT(y, m, d, h) == [y |-> y, m |-> m, d |-> d, h |-> h]

\* Total order of datetimes as one integer (comparison operators of datetime).
Key(dt) == ((dt.y * 12 + (dt.m - 1)) * 31 + (dt.d - 1)) * 24 + dt.h

IsLeap(y) == y % 4 = 0 /\ (y % 100 # 0 \/ y % 400 = 0)

\* calendar.monthrange(year, month)[1]
monthrange(y, m) ==
    IF m = 2 THEN (IF IsLeap(y) THEN 29 ELSE 28)
    ELSE IF m \in {4, 6, 9, 11} THEN 30 ELSE 31

DaysBeforeYear(y) == (y - 1) * 365 + (y - 1) \div 4 - (y - 1) \div 100 + (y - 1) \div 400

RECURSIVE DaysBeforeMonth(_, _)
DaysBeforeMonth(y, m) ==
    IF m = 1 THEN 0 ELSE DaysBeforeMonth(y, m - 1) + monthrange(y, m - 1)

\* datetime.toordinal(): 0001-01-01 is day 1.
ToOrdinal(dt) == DaysBeforeYear(dt.y) + DaysBeforeMonth(dt.y, dt.m) + dt.d

\* datetime.fromordinal(n), keeping the time of day h.
FromOrdinal(n, h) ==
    CHOOSE dt \in
        UNION {UNION {{DT(y, m, k - DaysBeforeYear(y) - DaysBeforeMonth(y, m), h)
                         : m \in {CHOOSE mm \in 1..12 :
                                     /\ DaysBeforeMonth(y, mm) < k - DaysBeforeYear(y)
                                     /\ k - DaysBeforeYear(y)
                                          <= DaysBeforeMonth(y, mm) + monthrange(y, mm)}}
                        : y \in {CHOOSE yy \in (k \div 366)..(k \div 365 + 1) :
                                    /\ DaysBeforeYear(yy) < k
                                    /\ k <= DaysBeforeYear(yy + 1)}}
                 : k \in {n}} : TRUE

\* datetime + timedelta(days = n)
AddDays(dt, n) == FromOrdinal(ToOrdinal(dt) + n, dt.h)

\* datetime.weekday(): Monday is 0.
Weekday(dt) == (ToOrdinal(dt) + 6) % 7

\* reference or datetime.utcnow(), with utcnow the reading of the clock; then
\* value.replace(tzinfo=None): the model's datetimes are naive already.
_normalize_reference(reference, utcnow) ==
    IF reference = NoDate THEN utcnow ELSE reference

\* A faulty variant of _start_of_period: midnight of the reference day
\* whatever the frequency.
StartOfDay(reference, frequency) == [reference EXCEPT !.h = 0]

_start_of_period(reference, frequency) ==
    LET freq == IF frequency = NoFrequency THEN MONTHLY ELSE frequency
        base == [reference EXCEPT !.h = 0]
    IN CASE freq = DAILY -> base
         [] freq = WEEKLY -> AddDays(base, 0 - Weekday(base))
         [] freq = MONTHLY -> [base EXCEPT !.d = 1]
         [] freq = QUARTERLY ->
              LET quarter == (base.m - 1) \div 3
              IN [base EXCEPT !.m = quarter * 3 + 1, !.d = 1]
         [] OTHER -> base

\* months may be negative: Python's // and % floor, as \div and % do in TLA+.
_add_months(start, months) ==
    LET month_index == start.m - 1 + months
        year == start.y + (month_index \div 12)
        month == (month_index % 12) + 1
        mr == monthrange(year, month)
        day == IF start.d < mr THEN start.d ELSE mr
    IN [start EXCEPT !.y = year, !.m = month, !.d = day]

PeriodEndAtStart(start, frequency) == start

_compute_period_end(start, frequency) ==
    LET freq == IF frequency = NoFrequency THEN MONTHLY ELSE frequency
    IN CASE freq = DAILY -> AddDays(start, 1)
         [] freq = WEEKLY -> AddDays(start, 7)
         [] freq = MONTHLY -> _add_months(start, 1)
         [] freq = QUARTERLY -> _add_months(start, 3)
         [] OTHER -> start

\* A faulty variant of _compute_previous_start: one day back whatever the
\* frequency.
PreviousDay(start, frequency) == AddDays(start, 0 - 1)

_compute_previous_start(start, frequency) ==
    LET freq == IF frequency = NoFrequency THEN MONTHLY ELSE frequency
    IN CASE freq = DAILY -> AddDays(start, 0 - 1)
         [] freq = WEEKLY -> AddDays(start, 0 - 7)
         [] freq = MONTHLY -> _add_months(start, 0 - 1)
         [] freq = QUARTERLY -> _add_months(start, 0 - 3)
         [] OTHER -> start

\* A faulty variant of RollForward: the first loop never runs.
NoRollForward(p, reference, frequency) == p

\* A faulty variant of RollBackward: the second loop never runs.
NoRollBackward(p, reference, frequency) == p

\* The two while loops of _ensure_budget_period, on the triple
\* <<period_start, period_end, period_changed>>.
RECURSIVE RollForward(_, _, _)
RollForward(p, reference, frequency) ==
    IF Key(reference) >= Key(p[2])
    THEN RollForward(<<p[2], _compute_period_end(p[2], frequency), TRUE>>,
                     reference, frequency)
    ELSE p

RECURSIVE RollBackward(_, _, _)
RollBackward(p, reference, frequency) ==
    IF Key(reference) < Key(p[1])
    THEN RollBackward(<<_compute_previous_start(p[1], frequency), p[1], TRUE>>,
                      reference, frequency)
    ELSE p

\* A faulty variant of _ensure_budget_period: the period rolls as in the code
\* but the running total survives the roll (no reset on period_changed).
KeepAmountAcrossPeriods(allocation, reference, utcnow) ==
    LET frequency == IF allocation.period_frequency = NoFrequency
                     THEN MONTHLY ELSE allocation.period_frequency
        normalized_reference == _normalize_reference(reference, utcnow)
        p0 == IF allocation.period_start = NoDate \/ allocation.period_end = NoDate
              THEN LET s == _start_of_period(normalized_reference, frequency)
                   IN <<s, _compute_period_end(s, frequency), TRUE>>
              ELSE <<allocation.period_start, allocation.period_end, FALSE>>
        p1 == RollForward(p0, normalized_reference, frequency)
        p2 == RollBackward(p1, normalized_reference, frequency)
    IN [allocation EXCEPT !.period_start = p2[1], !.period_end = p2[2]]

\* A faulty variant of _ensure_budget_period: the running total is reset on
\* every call, whether or not the period changed.
ResetOnEveryCall(allocation, reference, utcnow) ==
    [KeepAmountAcrossPeriods(allocation, reference, utcnow)
        EXCEPT !.current_amount = 0]

_ensure_budget_period(allocation, reference, utcnow) ==
    LET frequency == IF allocation.period_frequency = NoFrequency
                     THEN MONTHLY ELSE allocation.period_frequency
        normalized_reference == _normalize_reference(reference, utcnow)
        p0 == IF allocation.period_start = NoDate \/ allocation.period_end = NoDate
              THEN LET s == _start_of_period(normalized_reference, frequency)
                   IN <<s, _compute_period_end(s, frequency), TRUE>>
              ELSE <<allocation.period_start, allocation.period_end, FALSE>>
        p1 == RollForward(p0, normalized_reference, frequency)
        p2 == RollBackward(p1, normalized_reference, frequency)
    IN [allocation EXCEPT
          !.current_amount = IF p2[3] THEN 0 ELSE @,
          !.period_start = p2[1],
          !.period_end = p2[2]]

\* A faulty variant of _budget_delta_for_transaction: a credit counts as
\* spending, like a debit.
UnsignedDelta(transaction_type, amount) ==
    IF transaction_type \in {DEBIT, CREDIT} THEN amount ELSE 0

\* A faulty variant of _budget_delta_for_transaction: a transfer counts as
\* spending, like a debit.
TransferAsSpending(transaction_type, amount) ==
    IF transaction_type \in {DEBIT, TRANSFER} THEN amount
    ELSE 0 - amount

\* A faulty variant of _budget_delta_for_transaction: a transfer counts as
\* a refund.
TransferAsRefund(transaction_type, amount) ==
    IF transaction_type = DEBIT THEN amount ELSE 0 - amount

_budget_delta_for_transaction(transaction_type, amount) ==
    IF transaction_type = DEBIT THEN amount
    ELSE IF transaction_type = CREDIT THEN 0 - amount
    ELSE 0

\* ------------------------------------------------------------- data store
\* A database snapshot db is a record
\*   accounts       : sequence of Account rows (the id is the index; rows are
\*                    never removed, delete_account only clears is_active)
\*   transactions   : function from the ids of the stored rows to Transaction
\*   next_id        : the next value of the transactions id sequence
\*   allocations    : sequence of Allocation rows
\*   budget_entries : function from the ids of the stored rows to BudgetEntry
\*   next_entry_id  : the next value of the budget_entries id sequence
\*   utcnow         : what datetime.utcnow() returns while the request runs

AccountRow(user_id, balance) ==
    [user_id |-> user_id, balance |-> balance, is_active |-> TRUE, currency |-> PHP]

\* One raw element of configuration["category_ids"]: int(value) succeeds
\* exactly when numeric is TRUE, and then yields val.
CategoryRef(val) == [numeric |-> TRUE, val |-> val]
JunkRef == [numeric |-> FALSE, val |-> 0]

\* Account.id == id, Account.user_id == user_id  (.first() is not None)
AccountOwnedBy(db, id, user_id) ==
    id \in 1..Len(db.accounts) /\ db.accounts[id].user_id = user_id

\* Account.id == id  (no owner filter)
AccountExists(db, id) == id \in 1..Len(db.accounts)

\* The signed effect of a posted transaction on one account, by the branches
\* of get_account_balance's replay loop.
SignedEffect(t, account_id) ==
    IF ~t.is_posted THEN 0
    ELSE IF t.transaction_type = CREDIT /\ t.account_id = account_id THEN t.amount
    ELSE IF t.transaction_type = DEBIT /\ t.account_id = account_id THEN 0 - t.amount
    ELSE IF t.transaction_type = TRANSFER
         THEN IF t.transfer_from_account_id = account_id
              THEN 0 - (t.amount + t.transfer_fee)
              ELSE IF t.transfer_to_account_id = account_id THEN t.amount ELSE 0
    ELSE 0

\* The rows get_account_balance selects for account_id.
Touches(t, account_id) ==
    \/ t.account_id = account_id
    \/ t.transfer_from_account_id = account_id
    \/ t.transfer_to_account_id = account_id

RECURSIVE SumEffects(_, _, _)
SumEffects(txns, ids, account_id) ==
    IF ids = {} THEN 0
    ELSE LET i == CHOOSE x \in ids : TRUE
         IN (IF Touches(txns[i], account_id) THEN SignedEffect(txns[i], account_id) ELSE 0)
            + SumEffects(txns, ids \ {i}, account_id)

\* "calculated_balance" of get_account_balance: the running balance after
\* the last selected row.
calculated_balance(db, account_id) ==
    SumEffects(db.transactions, DOMAIN db.transactions, account_id)

\* The rows for which the loop of get_account_balance reaches the append.
Counted(t, account_id) ==
    /\ t.is_posted
    /\ \/ t.transaction_type = CREDIT /\ t.account_id = account_id
       \/ t.transaction_type = DEBIT /\ t.account_id = account_id
       \/ /\ t.transaction_type = TRANSFER
          /\ \/ t.transfer_from_account_id = account_id
             \/ t.transfer_to_account_id = account_id

\* A faulty variant of DateOrders: the selected rows in any order.
AnyOrder(txns, ids) ==
    {s \in [1..Cardinality(ids) -> ids] :
        \A j, k \in 1..Cardinality(ids) : j # k => s[j] # s[k]}

\* order_by(Transaction.transaction_date): the sequences the query may
\* return, rows of equal transaction_date in either order.
RECURSIVE DateOrders(_, _)
DateOrders(txns, ids) ==
    IF ids = {} THEN {<<>>}
    ELSE UNION {{<<i>> \o s : s \in DateOrders(txns, ids \ {i})}
                  : i \in {j \in ids :
                             \A k \in ids : Key(txns[j].transaction_date)
                                               <= Key(txns[k].transaction_date)}}

\* The loop of get_account_balance over the rows in the order returned.
RECURSIVE balance_history(_, _, _, _)
balance_history(txns, order, account_id, running_balance) ==
    IF order = <<>> THEN <<>>
    ELSE IF ~Counted(txns[Head(order)], account_id)
         THEN balance_history(txns, Tail(order), account_id, running_balance)
    ELSE <<[date |-> txns[Head(order)].transaction_date,
            balance |-> running_balance + SignedEffect(txns[Head(order)], account_id),
            transaction_id |-> Head(order)]>>
         \o balance_history(txns, Tail(order), account_id,
                            running_balance + SignedEffect(txns[Head(order)], account_id))

\* get_account_balance for one order of the selected rows.
get_account_balance(db, current_user, account_id, order) ==
    IF ~AccountOwnedBy(db, account_id, current_user)
    THEN [status |-> 404]
    ELSE LET history == balance_history(db.transactions, order, account_id, 0)
         IN [status |-> 200, account_id |-> account_id,
             current_balance |-> db.accounts[account_id].balance,
             calculated_balance |-> IF history = <<>> THEN 0
                                    ELSE history[Len(history)].balance,
             balance_history |-> history]

\* --------------------------------------------------- allocation matching
\* A faulty variant of NormalizedIds: the first non-numeric entry ends the
\* scan instead of being skipped.
StopAtJunk(raw_category_ids) ==
    {raw_category_ids[k].val :
        k \in {j \in 1..Len(raw_category_ids) :
                  \A m \in 1..j : raw_category_ids[m].numeric}}

RECURSIVE NormalizedIds(_)
NormalizedIds(raw_category_ids) ==
    IF raw_category_ids = <<>> THEN {}
    ELSE (IF Head(raw_category_ids).numeric THEN {Head(raw_category_ids).val} ELSE {})
         \cup NormalizedIds(Tail(raw_category_ids))

\* The loop over candidate_budgets (rows in id order), from index i on.
RECURSIVE CategoryMatches(_, _, _, _, _)
CategoryMatches(db, user_id, category_id, seen, i) ==
    IF i > Len(db.allocations) THEN <<>>
    ELSE LET a == db.allocations[i]
             hit == /\ a.user_id = user_id
                    /\ a.allocation_type = BUDGET
                    /\ i \notin seen
                    /\ category_id \in NormalizedIds(a.category_ids)
         IN (IF hit THEN <<i>> ELSE <<>>)
            \o CategoryMatches(db, user_id, category_id,
                               IF hit THEN seen \cup {i} ELSE seen, i + 1)

\* Returns the sequence of the ids of the resolved allocations.
_get_budget_allocations_for_transaction(db, user_id, allocation_id, category_id) ==
    LET explicit ==
            IF /\ allocation_id # None
               /\ allocation_id \in 1..Len(db.allocations)
               /\ db.allocations[allocation_id].user_id = user_id
               /\ db.allocations[allocation_id].allocation_type = BUDGET
            THEN <<allocation_id>> ELSE <<>>
        seen == {explicit[k] : k \in 1..Len(explicit)}
    IN explicit \o (IF category_id # None
                    THEN CategoryMatches(db, user_id, category_id, seen, 1)
                    ELSE <<>>)

\* The for loop of _apply_budget_delta over the resolved rows; the result is
\* the allocations table after the loop.
RECURSIVE ApplyToEach(_, _, _, _, _)
ApplyToEach(allocations, ids, delta, reference, utcnow) ==
    IF ids = <<>> THEN allocations
    ELSE LET i == Head(ids)
             a == allocations[i]
             rolled == _ensure_budget_period(a, reference, utcnow)
             written == [rolled EXCEPT !.current_amount = @ + delta]
         IN ApplyToEach(IF a.allocation_type # BUDGET THEN allocations
                        ELSE [allocations EXCEPT ![i] = written],
                        Tail(ids), delta, reference, utcnow)

\* A faulty variant of _apply_budget_delta: the magnitude of the delta is
\* added whatever its sign.
ApplyMagnitude(allocations, ids, delta, reference_date, utcnow) ==
    IF ids = <<>> \/ delta = 0 THEN allocations
    ELSE ApplyToEach(allocations, ids, IF delta < 0 THEN 0 - delta ELSE delta,
                     _normalize_reference(reference_date, utcnow), utcnow)

_apply_budget_delta(allocations, ids, delta, reference_date, utcnow) ==
    IF ids = <<>> \/ delta = 0 THEN allocations
    ELSE ApplyToEach(allocations, ids, delta,
                     _normalize_reference(reference_date, utcnow), utcnow)

\* The rows _apply_budget_delta stamps with updated_at = now.
StampedBy(allocations, ids, delta) ==
    IF ids = <<>> \/ delta = 0 THEN {}
    ELSE {ids[k] : k \in {j \in 1..Len(ids) :
                             allocations[ids[j]].allocation_type = BUDGET}}

\* ---------------------------------------------------------------- handlers
\* Every handler is an operator from a database snapshot, the authenticated
\* user and the request to a result record:
\*   db      the committed database after the request
\*   status  the HTTP status (200, 400, 404)
\*   id      the id of the transaction created / updated / deleted, or None
\*   steps   the validation and mutation steps the handler ran, in order
\*   dirty   whether the session held uncommitted changes when the request
\*           failed
\*   stamped the allocations whose updated_at the request set
\*   old     the stored row an update or delete loaded (NoRow otherwise)
NoRow == <<>>

ResultOf(db, status, id, steps, dirty, stamped, old) ==
    [db |-> db, status |-> status, id |-> id, steps |-> steps,
     dirty |-> dirty, stamped |-> stamped, old |-> old]

Result(db, status, id, steps, dirty, stamped) ==
    ResultOf(db, status, id, steps, dirty, stamped, NoRow)

ValidationSteps == {"validate_budget_entry", "validate_transfer", "resolve_accounts"}
MutationSteps == {"add_row", "set_fields", "reverse_balance", "reverse_budget",
                  "apply_balance", "apply_budget", "delete_row"}

\* A faulty variant of Rollback: the pending changes of the failed request
\* are kept.
KeepPending(committed, pending) == pending

\* db.rollback() in the except branch of update_transaction: the session's
\* pending changes are dropped and the committed snapshot stays.
Rollback(committed, pending) == committed

\* An HTTPException that leaves the handler with no db.commit(): the request's
\* session is discarded with its pending changes.
DiscardSession(committed, pending) == committed

\* The constraints of the transactions table that db.commit() enforces on a
\* row the handlers let through: transaction_date is NOT NULL, and
\* allocation_id, transfer_from_account_id and transfer_to_account_id are
\* foreign keys.  (account_id and budget_entry_id are looked up by the
\* handlers; the categories the requests name are taken to exist.)
ConstraintsHold(db, row) ==
    /\ row.transaction_date # NoDate
    /\ row.allocation_id # None => row.allocation_id \in 1..Len(db.allocations)
    /\ row.transfer_from_account_id # None
          => AccountExists(db, row.transfer_from_account_id)
    /\ row.transfer_to_account_id # None
          => AccountExists(db, row.transfer_to_account_id)

\* A BudgetEntry row: the owner, the cadence and the optional links to an
\* account and an allocation.
BudgetEntryRow(user_id, cadence) ==
    [user_id |-> user_id, cadence |-> cadence, account_id |-> None,
     allocation_id |-> None]

\* BudgetEntry.id == id, BudgetEntry.user_id == user_id
BudgetEntryOwnedBy(db, id, user_id) ==
    id \in DOMAIN db.budget_entries /\ db.budget_entries[id].user_id = user_id

\* account.balance += amount on the row with that id.  The handlers guard
\* every use with "if account:", i.e. with the row's existence.
AddBalance(accounts, id, amount) ==
    IF id \in 1..Len(accounts)
    THEN [accounts EXCEPT ![id].balance = @ + amount]
    ELSE accounts

\* A faulty variant of CreateBalanceEffect: the source of a transfer is
\* charged the amount without the fee.
CreateWithoutFee(accounts, t) ==
    IF ~t.is_posted THEN accounts
    ELSE IF t.transaction_type = CREDIT
         THEN AddBalance(accounts, t.account_id, t.amount)
    ELSE IF t.transaction_type = DEBIT
         THEN AddBalance(accounts, t.account_id, 0 - t.amount)
    ELSE AddBalance(AddBalance(accounts, t.transfer_from_account_id, 0 - t.amount),
                    t.transfer_to_account_id, t.amount)

\* The balance branch of create_transaction (lines 334-342).
CreateBalanceEffect(accounts, t) ==
    IF ~t.is_posted THEN accounts
    ELSE IF t.transaction_type = CREDIT
         THEN AddBalance(accounts, t.account_id, t.amount)
    ELSE IF t.transaction_type = DEBIT
         THEN AddBalance(accounts, t.account_id, 0 - t.amount)
    ELSE AddBalance(AddBalance(accounts, t.transfer_from_account_id,
                               0 - (t.amount + t.transfer_fee)),
                    t.transfer_to_account_id, t.amount)

\* The first k elements of steps up to and including the step named s: what
\* a handler has run when it raises at s.
RECURSIVE UpTo(_, _)
UpTo(steps, s) ==
    IF steps = <<>> THEN <<>>
    ELSE IF Head(steps) = s THEN <<s>>
    ELSE <<Head(steps)>> \o UpTo(Tail(steps), s)

\* A faulty variant of CreateSteps: the row is added to the session before
\* the request is validated.
CreateStepsAddFirst(has_entry, is_transfer, is_posted, budget_ran) ==
    <<"add_row">>
    \o (IF has_entry THEN <<"validate_budget_entry">> ELSE <<>>)
    \o (IF is_transfer THEN <<"validate_transfer">> ELSE <<>>)
    \o <<"resolve_accounts">>
    \o (IF is_posted THEN <<"apply_balance">> ELSE <<>>)
    \o (IF budget_ran THEN <<"apply_budget">> ELSE <<>>)

\* The statement order of create_transaction: budget-entry check (266-277),
\* transfer configuration (289-295), account lookups (297-323), db.add
\* (331-332), balance (334-342), budget (344-353).
CreateSteps(has_entry, is_transfer, is_posted, budget_ran) ==
    (IF has_entry THEN <<"validate_budget_entry">> ELSE <<>>)
    \o (IF is_transfer THEN <<"validate_transfer">> ELSE <<>>)
    \o <<"resolve_accounts", "add_row">>
    \o (IF is_posted THEN <<"apply_balance">> ELSE <<>>)
    \o (IF budget_ran THEN <<"apply_budget">> ELSE <<>>)

\* TransactionCreate as the handler receives it: a request that omits
\* currency carries the schema's default, CurrencyType.PHP.
TransactionCreate(transaction) ==
    [transaction EXCEPT !.currency = IF @ = NoCurrency THEN PHP ELSE @]

create_transaction(db, current_user, transaction) ==
    LET transaction_data == TransactionCreate(transaction)
        \* The account the currencies default to once the accounts resolved.
        currency_account ==
            db.accounts[IF transaction.transaction_type = TRANSFER
                        THEN transaction.transfer_to_account_id
                        ELSE transaction.account_id]
        currency == IF transaction_data.currency = NoCurrency
                    THEN currency_account.currency
                    ELSE transaction_data.currency
        has_entry == transaction.budget_entry_id # None
        entry_ok == BudgetEntryOwnedBy(db, transaction.budget_entry_id, current_user)
        is_transfer == transaction.transaction_type = TRANSFER
        row == [user_id |-> current_user,
                account_id |-> transaction.account_id,
                category_id |-> transaction.category_id,
                allocation_id |-> transaction.allocation_id,
                budget_entry_id |-> transaction.budget_entry_id,
                amount |-> transaction.amount,
                transfer_fee |-> transaction.transfer_fee,
                transaction_type |-> transaction.transaction_type,
                is_posted |-> transaction.is_posted,
                transfer_from_account_id |-> transaction.transfer_from_account_id,
                transfer_to_account_id |-> transaction.transfer_to_account_id,
                transaction_date |-> transaction.transaction_date,
                currency |-> currency,
                projected_amount |-> transaction.projected_amount,
                projected_currency |->
                    IF /\ transaction_data.projected_currency = NoCurrency
                       /\ transaction.projected_amount # None
                    THEN currency_account.currency
                    ELSE transaction_data.projected_currency,
                original_amount |-> transaction.original_amount,
                original_currency |->
                    IF /\ transaction_data.original_currency = NoCurrency
                       /\ transaction.original_amount # None
                    THEN (IF transaction.transaction_type = TRANSFER
                          THEN currency_account.currency ELSE currency)
                    ELSE transaction_data.original_currency,
                is_recurring |-> has_entry,
                recurrence_frequency |->
                    IF has_entry /\ entry_ok
                    THEN db.budget_entries[transaction.budget_entry_id].cadence
                    ELSE NoCadence]
        delta == _budget_delta_for_transaction(transaction.transaction_type,
                                               transaction.amount)
        budget_allocations ==
            _get_budget_allocations_for_transaction(
                db, current_user, transaction.allocation_id, transaction.category_id)
        budget_ran == transaction.is_posted /\ delta # 0
        steps == CreateSteps(has_entry, is_transfer, transaction.is_posted, budget_ran)
        steps_entry == UpTo(steps, "validate_budget_entry")
        steps_valid == UpTo(steps, "validate_transfer")
        steps_resolve == UpTo(steps, "resolve_accounts")
        new_db == [db EXCEPT
                     !.transactions = (db.next_id :> row) @@ @,
                     !.next_id = @ + 1,
                     !.accounts = CreateBalanceEffect(@, row),
                     !.allocations =
                         IF budget_ran
                         THEN _apply_budget_delta(@, budget_allocations, delta,
                                                  transaction.transaction_date,
                                                  db.utcnow)
                         ELSE @]
    IN IF has_entry /\ ~entry_ok
       THEN Result(db, 404, None, steps_entry, FALSE, {})
       ELSE IF is_transfer /\ (\/ transaction.transfer_from_account_id = None
                               \/ transaction.transfer_to_account_id = None)
       THEN Result(db, 400, None, steps_valid, FALSE, {})
       ELSE IF is_transfer /\ transaction.transfer_from_account_id
                                  = transaction.transfer_to_account_id
       THEN Result(db, 400, None, steps_valid, FALSE, {})
       ELSE IF is_transfer /\ transaction.account_id
                                  # transaction.transfer_from_account_id
       THEN Result(db, 400, None, steps_valid, FALSE, {})
       ELSE IF is_transfer /\ ~AccountOwnedBy(db, transaction.transfer_from_account_id,
                                              current_user)
       THEN Result(db, 404, None, steps_resolve, FALSE, {})
       ELSE IF is_transfer /\ ~AccountOwnedBy(db, transaction.transfer_to_account_id,
                                              current_user)
       THEN Result(db, 404, None, steps_resolve, FALSE, {})
       ELSE IF ~is_transfer /\ ~AccountOwnedBy(db, transaction.account_id, current_user)
       THEN Result(db, 404, None, steps_resolve, FALSE, {})
       \* The INSERT is refused at db.commit(): nothing is stored, and the id
       \* the row drew from the sequence is spent.
       ELSE IF ~ConstraintsHold(db, row)
       THEN Result(DiscardSession([db EXCEPT !.next_id = @ + 1], new_db), 500, None,
                   steps, TRUE, {})
       ELSE Result(new_db, 200, db.next_id, steps, FALSE,
                   IF budget_ran THEN StampedBy(db.allocations, budget_allocations, delta)
                   ELSE {})

\* The transaction lookup shared by update_transaction, delete_transaction
\* (and get_transaction): the row exists and its account_id, transfer source
\* or transfer destination is one of the caller's accounts.
VisibleTo(db, transaction_id, current_user) ==
    /\ transaction_id \in DOMAIN db.transactions
    /\ LET t == db.transactions[transaction_id]
       IN \/ AccountOwnedBy(db, t.account_id, current_user)
          \/ AccountOwnedBy(db, t.transfer_from_account_id, current_user)
          \/ AccountOwnedBy(db, t.transfer_to_account_id, current_user)

\* A faulty variant of ReverseBalanceEffect: the source of a transfer is
\* given back the amount without the fee.
ReverseWithoutFee(accounts, t) ==
    IF ~t.is_posted THEN accounts
    ELSE IF t.transaction_type = CREDIT
         THEN AddBalance(accounts, t.account_id, 0 - t.amount)
    ELSE IF t.transaction_type = DEBIT
         THEN AddBalance(accounts, t.account_id, t.amount)
    ELSE AddBalance(AddBalance(accounts, t.transfer_from_account_id, t.amount),
                    t.transfer_to_account_id, 0 - t.amount)

\* The reversal branch shared by update_transaction (lines 409-426) and
\* delete_transaction (lines 557-572): accounts are fetched by id alone.
ReverseBalanceEffect(accounts, t) ==
    IF ~t.is_posted THEN accounts
    ELSE IF t.transaction_type = CREDIT
         THEN AddBalance(accounts, t.account_id, 0 - t.amount)
    ELSE IF t.transaction_type = DEBIT
         THEN AddBalance(accounts, t.account_id, t.amount)
    ELSE LET a1 == IF t.transfer_from_account_id # None
                   THEN AddBalance(accounts, t.transfer_from_account_id,
                                   t.amount + t.transfer_fee)
                   ELSE accounts
         IN IF t.transfer_to_account_id # None
            THEN AddBalance(a1, t.transfer_to_account_id, 0 - t.amount)
            ELSE a1

\* A faulty variant of ReverseBudgetEffect: the old budget delta stays.
SkipBudgetReversal(db, current_user, t) == db.allocations

\* The budget reversal shared by update_transaction (lines 427-435) and
\* delete_transaction (lines 573-581), with the stored row's category,
\* allocation and date, and the caller's user id.
ReverseBudgetEffect(db, current_user, t) ==
    LET delta == _budget_delta_for_transaction(t.transaction_type, t.amount)
    IN IF t.is_posted /\ delta # 0
       THEN _apply_budget_delta(
                db.allocations,
                _get_budget_allocations_for_transaction(
                    db, current_user, t.allocation_id, t.category_id),
                0 - delta, t.transaction_date, db.utcnow)
       ELSE db.allocations

ReverseStamped(db, current_user, t) ==
    LET delta == _budget_delta_for_transaction(t.transaction_type, t.amount)
    IN IF t.is_posted /\ delta # 0
       THEN StampedBy(db.allocations,
                      _get_budget_allocations_for_transaction(
                          db, current_user, t.allocation_id, t.category_id),
                      0 - delta)
       ELSE {}

ReverseSteps(t) ==
    IF ~t.is_posted THEN <<>>
    ELSE <<"reverse_balance">>
         \o (IF _budget_delta_for_transaction(t.transaction_type, t.amount) # 0
             THEN <<"reverse_budget">> ELSE <<>>)

\* update_data = transaction_update.dict(exclude_unset=True): the request
\* names the fields its body sets in upd.set; a field outside upd.set keeps
\* the stored value.
Given(upd, t, f) == IF f \in upd.set THEN upd[f] ELSE t[f]

\* A faulty variant of UpdateBalanceEffect: the new effect is applied whether
\* or not the updated row is posted.
ApplyIgnoringPosted(accounts, t) ==
    IF t.transaction_type = CREDIT
    THEN AddBalance(accounts, t.account_id, t.amount)
    ELSE IF t.transaction_type = DEBIT
         THEN AddBalance(accounts, t.account_id, 0 - t.amount)
    ELSE AddBalance(AddBalance(accounts, t.transfer_from_account_id,
                               0 - (t.amount + t.transfer_fee)),
                    t.transfer_to_account_id, t.amount)

\* The apply branch of update_transaction (lines 516-523) on the updated row;
\* primary_account and destination_account were resolved for the caller.
UpdateBalanceEffect(accounts, t) ==
    IF ~t.is_posted THEN accounts
    ELSE IF t.transaction_type = CREDIT
         THEN AddBalance(accounts, t.account_id, t.amount)
    ELSE IF t.transaction_type = DEBIT
         THEN AddBalance(accounts, t.account_id, 0 - t.amount)
    ELSE AddBalance(AddBalance(accounts, t.transfer_from_account_id,
                               0 - (t.amount + t.transfer_fee)),
                    t.transfer_to_account_id, t.amount)

\* A faulty variant of SetFields: is_recurring and recurrence_frequency are
\* taken from the body like any other field.
SetClientRecurrence(db, upd, old) ==
    [old EXCEPT
       !.budget_entry_id = Given(upd, old, "budget_entry_id"),
       !.is_recurring = Given(upd, old, "is_recurring"),
       !.recurrence_frequency = Given(upd, old, "recurrence_frequency"),
       !.account_id = Given(upd, old, "account_id"),
       !.currency = Given(upd, old, "currency"),
       !.projected_amount = Given(upd, old, "projected_amount"),
       !.projected_currency = Given(upd, old, "projected_currency"),
       !.original_amount = Given(upd, old, "original_amount"),
       !.original_currency = Given(upd, old, "original_currency"),
       !.category_id = Given(upd, old, "category_id"),
       !.allocation_id = Given(upd, old, "allocation_id"),
       !.amount = Given(upd, old, "amount"),
       !.transfer_fee = Given(upd, old, "transfer_fee"),
       !.transaction_type = Given(upd, old, "transaction_type"),
       !.is_posted = Given(upd, old, "is_posted"),
       !.transfer_from_account_id = Given(upd, old, "transfer_from_account_id"),
       !.transfer_to_account_id = Given(upd, old, "transfer_to_account_id"),
       !.transaction_date = Given(upd, old, "transaction_date")]

\* setattr(db_transaction, field, value) for every field of update_data
\* (lines 437-462), with is_recurring / recurrence_frequency taken from the
\* budget entry when the body carries budget_entry_id.
SetFields(db, upd, old) ==
    LET sets_entry == "budget_entry_id" \in upd.set
        has_entry == sets_entry /\ upd.budget_entry_id # None
    IN [old EXCEPT
          !.budget_entry_id = Given(upd, old, "budget_entry_id"),
          !.is_recurring = IF sets_entry THEN has_entry ELSE @,
          !.recurrence_frequency =
              IF ~sets_entry THEN @
              ELSE IF has_entry
                   THEN db.budget_entries[upd.budget_entry_id].cadence
                   ELSE NoCadence,
          !.account_id = Given(upd, old, "account_id"),
          !.currency = Given(upd, old, "currency"),
          !.projected_amount = Given(upd, old, "projected_amount"),
          !.projected_currency = Given(upd, old, "projected_currency"),
          !.original_amount = Given(upd, old, "original_amount"),
          !.original_currency = Given(upd, old, "original_currency"),
          !.category_id = Given(upd, old, "category_id"),
          !.allocation_id = Given(upd, old, "allocation_id"),
          !.amount = Given(upd, old, "amount"),
          !.transfer_fee = Given(upd, old, "transfer_fee"),
          !.transaction_type = Given(upd, old, "transaction_type"),
          !.is_posted = Given(upd, old, "is_posted"),
          !.transfer_from_account_id = Given(upd, old, "transfer_from_account_id"),
          !.transfer_to_account_id = Given(upd, old, "transfer_to_account_id"),
          !.transaction_date = Given(upd, old, "transaction_date")]

\* update_transaction from line 515: the new effect on the validated row, and
\* the commit.  reversed is the session after the reversal, steps what ran.
ApplyUpdate(db, current_user, transaction_id, old, reversed, new_row, steps) ==
    LET new_delta == _budget_delta_for_transaction(new_row.transaction_type,
                                                   new_row.amount)
        budget_ran == new_row.is_posted /\ new_delta # 0
        new_budget_allocations ==
            IF budget_ran
            THEN _get_budget_allocations_for_transaction(
                     reversed, current_user, new_row.allocation_id, new_row.category_id)
            ELSE <<>>
    IN \* The UPDATE is refused at db.commit(): the exception is no
       \* HTTPException, and the session is discarded with the request.
       IF ~ConstraintsHold(reversed, new_row)
       THEN ResultOf(DiscardSession(db, reversed), 500, transaction_id,
                     steps \o (IF new_row.is_posted THEN <<"apply_balance">> ELSE <<>>)
                           \o (IF budget_ran THEN <<"apply_budget">> ELSE <<>>),
                     TRUE, {}, old)
       ELSE
       ResultOf([reversed EXCEPT
                   !.transactions[transaction_id] = new_row,
                   !.accounts = UpdateBalanceEffect(@, new_row),
                   !.allocations =
                       _apply_budget_delta(@, new_budget_allocations, new_delta,
                                           new_row.transaction_date, db.utcnow)],
                200, transaction_id,
                steps \o (IF new_row.is_posted THEN <<"apply_balance">> ELSE <<>>)
                      \o (IF budget_ran THEN <<"apply_budget">> ELSE <<>>),
                FALSE,
                ReverseStamped(db, current_user, old)
                  \cup StampedBy(reversed.allocations, new_budget_allocations,
                                 new_delta),
                old)

\* A faulty variant of AccountFromSource: account_id stays as the update
\* body left it.
KeepAccountId(row) == row

\* db_transaction.account_id = db_transaction.transfer_from_account_id
AccountFromSource(row) == [row EXCEPT !.account_id = row.transfer_from_account_id]

\* The currency defaults of update_transaction, once the accounts resolved:
\* from the destination account for a transfer, from the primary account
\* otherwise (original_currency from the row's currency).
UpdateCurrencies(db, row) ==
    LET account == db.accounts[IF row.transaction_type = TRANSFER
                               THEN row.transfer_to_account_id
                               ELSE row.account_id]
        currency == IF row.currency = NoCurrency THEN account.currency
                    ELSE row.currency
    IN [row EXCEPT
          !.currency = currency,
          !.projected_currency =
              IF row.projected_amount # None /\ @ = NoCurrency
              THEN account.currency ELSE @,
          !.original_currency =
              IF row.original_amount # None /\ @ = NoCurrency
              THEN (IF row.transaction_type = TRANSFER
                    THEN account.currency ELSE currency)
              ELSE @]

\* update_transaction, lines 470-513: the try block that validates the
\* assigned row, and the except branch that rolls the session back.
ValidateUpdate(db, current_user, transaction_id, old, reversed, set_row, steps_entry) ==
    LET is_transfer == set_row.transaction_type = TRANSFER
        steps_set == steps_entry \o <<"set_fields">>
                     \o (IF is_transfer THEN <<"validate_transfer">> ELSE <<>>)
        pending == [reversed EXCEPT !.transactions[transaction_id] = set_row]
        dirty == pending # db
        \* db_transaction.account_id = db_transaction.transfer_from_account_id
        moved_row == IF is_transfer THEN AccountFromSource(set_row) ELSE set_row
        new_row == UpdateCurrencies(db, moved_row)
    IN IF is_transfer /\ (\/ set_row.transfer_from_account_id = None
                          \/ set_row.transfer_to_account_id = None)
       THEN ResultOf(Rollback(db, pending), 400, transaction_id, steps_set, dirty, {}, old)
       ELSE IF is_transfer /\ set_row.transfer_from_account_id
                                  = set_row.transfer_to_account_id
       THEN ResultOf(Rollback(db, pending), 400, transaction_id, steps_set, dirty, {}, old)
       ELSE IF is_transfer /\ ~AccountOwnedBy(db, set_row.transfer_from_account_id,
                                              current_user)
       THEN ResultOf(Rollback(db, pending), 404, transaction_id,
                     steps_set \o <<"resolve_accounts">>, dirty, {}, old)
       ELSE IF is_transfer /\ ~AccountOwnedBy(db, set_row.transfer_to_account_id,
                                              current_user)
       THEN ResultOf(Rollback(db, pending), 404, transaction_id,
                     steps_set \o <<"resolve_accounts">>, dirty, {}, old)
       ELSE IF ~is_transfer /\ ~AccountOwnedBy(db, set_row.account_id, current_user)
       THEN ResultOf(Rollback(db, pending), 404, transaction_id,
                     steps_set \o <<"resolve_accounts">>, dirty, {}, old)
       ELSE ApplyUpdate(db, current_user, transaction_id, old, reversed, new_row,
                        steps_set \o <<"resolve_accounts">>)

\* update_transaction, lines 437-462: the budget entry of the body is looked
\* up for the caller (404 outside the try block), then the fields are set.
LinkAndAssign(db, current_user, transaction_id, upd, old, reversed) ==
    LET has_entry == "budget_entry_id" \in upd.set /\ upd.budget_entry_id # None
        steps_entry == ReverseSteps(old)
                       \o (IF has_entry THEN <<"validate_budget_entry">> ELSE <<>>)
    IN IF has_entry /\ ~BudgetEntryOwnedBy(db, upd.budget_entry_id, current_user)
       THEN ResultOf(DiscardSession(db, reversed), 404, transaction_id,
                     steps_entry, reversed # db, {}, old)
       ELSE ValidateUpdate(db, current_user, transaction_id, old, reversed,
                           SetFields(db, upd, old), steps_entry)

\* update_transaction, lines 396-435: the old effects are reversed on the
\* session (accounts by id alone, allocations resolved for the caller).
ReverseOld(db, current_user, old) ==
    [db EXCEPT !.accounts = ReverseBalanceEffect(@, old),
               !.allocations = ReverseBudgetEffect(db, current_user, old)]

update_transaction(db, current_user, transaction_id, upd) ==
    IF ~VisibleTo(db, transaction_id, current_user)
    THEN Result(db, 404, None, <<>>, FALSE, {})
    ELSE LinkAndAssign(db, current_user, transaction_id, upd,
                       db.transactions[transaction_id],
                       ReverseOld(db, current_user, db.transactions[transaction_id]))

delete_transaction(db, current_user, transaction_id) ==
    IF ~VisibleTo(db, transaction_id, current_user)
    THEN Result(db, 404, None, <<>>, FALSE, {})
    ELSE
    LET t == db.transactions[transaction_id]
        new_db == [db EXCEPT
                     !.accounts = ReverseBalanceEffect(@, t),
                     !.allocations = ReverseBudgetEffect(db, current_user, t),
                     !.transactions =
                         [i \in (DOMAIN @) \ {transaction_id} |-> @[i]]]
    IN ResultOf(new_db, 200, transaction_id,
              ReverseSteps(t) \o <<"delete_row">>, FALSE,
              ReverseStamped(db, current_user, t), t)

\* ------------------------------------------------- accounts.py handlers
\* AccountCreate as the handler receives it: a request that omits currency
\* carries the schema's default, CurrencyType.PHP (is_active defaults to True,
\* balance to 0.0).
AccountCreate(account) ==
    [account EXCEPT !.currency = IF @ = NoCurrency THEN PHP ELSE @]

\* create_account: Account(**account.dict(), user_id=current_user.id); the
\* request's balance, currency and is_active are stored as given.
create_account(db, current_user, account) ==
    Result([db EXCEPT
              !.accounts =
                  Append(@, [user_id |-> current_user,
                             balance |-> AccountCreate(account).balance,
                             is_active |-> AccountCreate(account).is_active,
                             currency |-> AccountCreate(account).currency])],
           200, Len(db.accounts) + 1, <<>>, FALSE, {})

\* update_account: setattr for every field of the body (AccountUpdate carries
\* balance, currency and is_active among others).  accounts.currency is NOT
\* NULL: a body that sets currency to null is refused at db.commit().
update_account(db, current_user, account_id, upd) ==
    IF ~AccountOwnedBy(db, account_id, current_user)
    THEN Result(db, 404, None, <<>>, FALSE, {})
    ELSE IF "currency" \in upd.set /\ upd.currency = NoCurrency
    THEN Result(DiscardSession(db, db), 500, account_id, <<>>, TRUE, {})
    ELSE Result([db EXCEPT
                   !.accounts[account_id].balance =
                       IF "balance" \in upd.set THEN upd.balance ELSE @,
                   !.accounts[account_id].currency =
                       IF "currency" \in upd.set THEN upd.currency ELSE @,
                   !.accounts[account_id].is_active =
                       IF "is_active" \in upd.set THEN upd.is_active ELSE @],
                200, account_id, <<>>, FALSE, {})

\* delete_account: soft delete.
delete_account(db, current_user, account_id) ==
    IF ~AccountOwnedBy(db, account_id, current_user)
    THEN Result(db, 404, None, <<>>, FALSE, {})
    ELSE Result([db EXCEPT !.accounts[account_id].is_active = FALSE],
                200, account_id, <<>>, FALSE, {})

\* ---------------------------------------------- allocations.py handlers
\* update_allocation takes no current user: the row is fetched by id alone.
\* The handler commits the row and returns it; the route's response_model is
\* AllocationResponse, whose current_amount is Field(ge=0), so a stored
\* negative current_amount fails the validation of the response: the answer
\* is 500 and the commit stays.
update_allocation(db, allocation_id, upd) ==
    IF allocation_id \notin 1..Len(db.allocations)
    THEN Result(db, 404, None, <<>>, FALSE, {})
    ELSE LET db_allocation ==
                 [f \in DOMAIN db.allocations[allocation_id] |->
                     IF f \in upd.set THEN upd[f]
                     ELSE db.allocations[allocation_id][f]]
             committed == [db EXCEPT !.allocations[allocation_id] = db_allocation]
         IN IF db_allocation.current_amount < 0
            THEN Result(committed, 500, None, <<>>, FALSE, {allocation_id})
            ELSE Result(committed, 200, allocation_id, <<>>, FALSE, {allocation_id})

\* delete_allocation: soft delete, by id alone.
delete_allocation(db, allocation_id) ==
    IF allocation_id \notin 1..Len(db.allocations)
    THEN Result(db, 404, None, <<>>, FALSE, {})
    ELSE Result([db EXCEPT !.allocations[allocation_id].is_active = FALSE],
                200, allocation_id, <<>>, FALSE, {allocation_id})

\* ------------------------------------------- budget_entries.py handlers
\* _ensure_related_resources: the account and the allocation a budget entry
\* names must be the caller's.  (No request of the model names a category.)
RelatedResourcesMissing(db, user_id, account_id, allocation_id) ==
    \/ account_id # None /\ ~AccountOwnedBy(db, account_id, user_id)
    \/ /\ allocation_id # None
       /\ ~(/\ allocation_id \in 1..Len(db.allocations)
            /\ db.allocations[allocation_id].user_id = user_id)

\* BudgetEntryCreate as the handler receives it: a request that omits cadence
\* carries the schema's default, RecurrenceFrequency.MONTHLY.
BudgetEntryCreate(entry_in) ==
    [entry_in EXCEPT !.cadence = IF @ = NoCadence THEN "monthly" ELSE @]

\* create_budget_entry: BudgetEntry(**entry_data) with the caller's user_id.
create_budget_entry(db, current_user, entry_in) ==
    IF RelatedResourcesMissing(db, current_user, entry_in.account_id,
                               entry_in.allocation_id)
    THEN Result(db, 404, None, <<>>, FALSE, {})
    ELSE Result([db EXCEPT
                   !.budget_entries =
                       (db.next_entry_id :>
                           [user_id |-> current_user,
                            cadence |-> BudgetEntryCreate(entry_in).cadence,
                            account_id |-> entry_in.account_id,
                            allocation_id |-> entry_in.allocation_id]) @@ @,
                   !.next_entry_id = @ + 1],
                201, db.next_entry_id, <<>>, FALSE, {})

\* update_budget_entry: setattr for every field of the body; the stored
\* transactions that copied the entry's cadence are not touched.
\* budget_entries.cadence is NOT NULL: a body that sets it to null is refused
\* at db.commit().
update_budget_entry(db, current_user, entry_id, upd) ==
    IF ~BudgetEntryOwnedBy(db, entry_id, current_user)
    THEN Result(db, 404, None, <<>>, FALSE, {})
    ELSE IF RelatedResourcesMissing(
                db, current_user,
                IF "account_id" \in upd.set THEN upd.account_id
                ELSE db.budget_entries[entry_id].account_id,
                IF "allocation_id" \in upd.set THEN upd.allocation_id
                ELSE db.budget_entries[entry_id].allocation_id)
    THEN Result(db, 404, None, <<>>, FALSE, {})
    ELSE IF "cadence" \in upd.set /\ upd.cadence = NoCadence
    THEN Result(DiscardSession(db, db), 500, entry_id, <<>>, TRUE, {})
    ELSE Result([db EXCEPT
                   !.budget_entries[entry_id] =
                       [f \in DOMAIN @ |-> IF f \in upd.set THEN upd[f] ELSE @[f]]],
                200, entry_id, <<>>, FALSE, {})

\* delete_budget_entry: db.delete(entry).  BudgetEntry.transactions is a
\* one-to-many relationship with the default cascade, so the unit of work
\* sets budget_entry_id of the entry's transactions to NULL and touches no
\* other column of them.
delete_budget_entry(db, current_user, entry_id) ==
    IF ~BudgetEntryOwnedBy(db, entry_id, current_user)
    THEN Result(db, 404, None, <<>>, FALSE, {})
    ELSE Result([db EXCEPT
                   !.budget_entries = [i \in (DOMAIN @) \ {entry_id} |-> @[i]],
                   !.transactions =
                       [i \in DOMAIN @ |->
                           IF @[i].budget_entry_id = entry_id
                           THEN [@[i] EXCEPT !.budget_entry_id = None]
                           ELSE @[i]]],
                204, entry_id, <<>>, FALSE, {})

\* create_allocation: the body is validated (current_amount has ge=0), the
\* account is looked up by id alone, and Allocation(**allocation.dict())
\* carries no user_id: allocations.user_id is NOT NULL, so the INSERT is
\* refused at db.commit().
create_allocation(db, allocation) ==
    IF allocation.current_amount < 0
    THEN Result(db, 422, None, <<>>, FALSE, {})
    ELSE IF ~AccountExists(db, allocation.account_id)
    THEN Result(db, 404, None, <<>>, FALSE, {})
    ELSE Result(DiscardSession(db, db), 500, None, <<>>, TRUE, {})

\* ------------------------------------------------------------ input sets
Users == {1, 2}

D1 == DT(2024, 1, 15, 12)
D2 == DT(2024, 2, 15, 0)
TxDates == {D1, D2}

AllocationRow(user_id, allocation_type, current_amount, period_frequency, period_start, period_end, category_ids) ==
    [user_id |-> user_id, allocation_type |-> allocation_type,
     current_amount |-> current_amount, period_frequency |-> period_frequency,
     period_start |-> period_start, period_end |-> period_end,
     category_ids |-> category_ids, is_active |-> TRUE]

\* The transaction request every family below varies.
BaseRequest ==
    [account_id |-> 1, category_id |-> None, allocation_id |-> None,
     budget_entry_id |-> None, amount |-> 2, transfer_fee |-> 0,
     transaction_type |-> DEBIT, is_posted |-> TRUE,
     transfer_from_account_id |-> None, transfer_to_account_id |-> None,
     transaction_date |-> D1, is_recurring |-> FALSE,
     recurrence_frequency |-> NoCadence,
     currency |-> NoCurrency, projected_amount |-> None,
     projected_currency |-> NoCurrency, original_amount |-> None,
     original_currency |-> NoCurrency]

\* Debits and credits on an account, posted or not.
LedgerRequests ==
    {[BaseRequest EXCEPT !.transaction_type = ty, !.is_posted = p, !.account_id = a]
        : ty \in {DEBIT, CREDIT}, p \in BOOLEAN, a \in {1, 3}}

\* Transfers: valid pairs, every way the configuration can be invalid
\* (account 9 does not exist), and a transfer tagged for a budget.
TransferRequests ==
    {[BaseRequest EXCEPT !.transaction_type = TRANSFER, !.is_posted = p,
                         !.transfer_fee = f, !.account_id = x,
                         !.transfer_from_account_id = x,
                         !.transfer_to_account_id = y]
        : p \in BOOLEAN, f \in {0, 1}, x \in {1, 2}, y \in {1, 2, 3, None}}
    \cup {[BaseRequest EXCEPT !.transaction_type = TRANSFER, !.account_id = 1,
                              !.transfer_from_account_id = x,
                              !.transfer_to_account_id = 1]
             : x \in {None, 2, 3}}
    \cup {[BaseRequest EXCEPT !.transaction_type = TRANSFER, !.account_id = xy[1],
                              !.transfer_from_account_id = xy[1],
                              !.transfer_to_account_id = xy[2]]
             : xy \in {<<1, 9>>, <<9, 1>>}}
    \cup {[BaseRequest EXCEPT !.transaction_type = TRANSFER,
                              !.transfer_from_account_id = 1,
                              !.transfer_to_account_id = 2,
                              !.category_id = 5, !.allocation_id = 1,
                              !.transaction_date = D2]}

\* Posted debits and credits that name a category and / or an allocation.
BudgetRequests ==
    {[BaseRequest EXCEPT !.transaction_type = ty, !.category_id = ca[1],
                         !.allocation_id = ca[2], !.transaction_date = dt,
                         !.amount = am]
        : ty \in {DEBIT, CREDIT},
          ca \in {<<5, None>>, <<7, None>>, <<9, None>>, <<None, 1>>, <<5, 1>>,
                  <<None, 2>>},
          dt \in TxDates, am \in {2}}
    \cup {[BaseRequest EXCEPT !.category_id = 5, !.transaction_date = dt, !.amount = am]
             : dt \in TxDates, am \in {0, 3}}

\* Requests that link a budget entry, with client-supplied recurrence fields.
EntryRequests ==
    {[BaseRequest EXCEPT !.budget_entry_id = e, !.is_recurring = r,
                         !.recurrence_frequency = c]
        : e \in {1, 2, 3}, r \in {FALSE}, c \in {NoCadence}}
    \cup {[BaseRequest EXCEPT !.is_recurring = TRUE, !.recurrence_frequency = "annual"]}

\* A debit whose unused transfer_to_account_id names another user's account,
\* and one whose allocation_id names no allocation.
StrayRequests ==
    {[BaseRequest EXCEPT !.transfer_to_account_id = 3, !.allocation_id = 1],
     [BaseRequest EXCEPT !.allocation_id = 9]}

CreateRequests ==
    LedgerRequests \cup TransferRequests \cup BudgetRequests
        \cup EntryRequests \cup StrayRequests

\* A TransactionUpdate body that sets nothing.
NoUpdate == [BaseRequest EXCEPT !.amount = 0] @@ [set |-> {}]

\* The body that sets every field to the stored row's value.
IdentityOf(t) ==
    [f \in DOMAIN BaseRequest |-> t[f]] @@ [set |-> DOMAIN BaseRequest]

SingleFieldUpdates ==
    {[NoUpdate EXCEPT !.set = {"amount"}, !.amount = 3]}
    \cup {[NoUpdate EXCEPT !.set = {"is_posted"}, !.is_posted = p] : p \in BOOLEAN}
    \cup {[NoUpdate EXCEPT !.set = {"transaction_type"}, !.transaction_type = ty]
             : ty \in TransactionType}
    \cup {[NoUpdate EXCEPT !.set = {"account_id"}, !.account_id = a] : a \in {2, 3}}
    \cup {[NoUpdate EXCEPT !.set = {"transaction_date"}, !.transaction_date = dt]
             : dt \in TxDates \cup {NoDate}}
    \cup {[NoUpdate EXCEPT !.set = {"category_id"}, !.category_id = c]
             : c \in {None, 5, 9}}
    \cup {[NoUpdate EXCEPT !.set = {"allocation_id"}, !.allocation_id = a]
             : a \in {None, 1, 9}}
    \cup {[NoUpdate EXCEPT !.set = {"budget_entry_id", "is_recurring"},
                           !.budget_entry_id = e, !.is_recurring = r]
             : e \in {None, 1, 2, 3}, r \in {TRUE}}
    \cup {[NoUpdate EXCEPT !.set = {"transfer_fee"}, !.transfer_fee = 1]}
    \cup {[NoUpdate EXCEPT !.set = {"transfer_to_account_id"},
                           !.transfer_to_account_id = a] : a \in {None, 3}}

ToTransferUpdates ==
    {[NoUpdate EXCEPT !.set = {"transaction_type", "transfer_from_account_id",
                               "transfer_to_account_id"},
                      !.transaction_type = TRANSFER,
                      !.transfer_from_account_id = x,
                      !.transfer_to_account_id = y]
        : x \in {1, 2}, y \in {1, 3}}
    \cup {[NoUpdate EXCEPT !.set = {"transaction_type", "account_id",
                                    "transfer_from_account_id",
                                    "transfer_to_account_id"},
                           !.transaction_type = TRANSFER, !.account_id = 1,
                           !.transfer_from_account_id = 2,
                           !.transfer_to_account_id = 1]}

UpdateRequests(t) ==
    {NoUpdate, IdentityOf(t)} \cup SingleFieldUpdates \cup ToTransferUpdates

\* The calls of the two users: user 1 sends every request, user 2 the ledger
\* requests (on an own and on a foreign account) and a budget entry link.
CreateCalls ==
    ({1} \X CreateRequests)
    \cup ({2} \X (LedgerRequests
                  \cup {[BaseRequest EXCEPT !.account_id = 3, !.budget_entry_id = e,
                                            !.allocation_id = 1]
                           : e \in {1, 2}}))

UpdateCalls(t) ==
    ({1} \X UpdateRequests(t))
    \cup ({2} \X {NoUpdate, IdentityOf(t),
                  [NoUpdate EXCEPT !.set = {"account_id"}, !.account_id = 3],
                  [NoUpdate EXCEPT !.set = {"budget_entry_id"}, !.budget_entry_id = 1]})

\* The narrow call sets of the budget specification: posted and unposted
\* debits and credits of user 1 on account 1 that resolve to allocation 1.
BudgetCreateCalls ==
    {1} \X ({[BaseRequest EXCEPT !.transaction_type = ty, !.category_id = ca[1],
                                 !.allocation_id = ca[2], !.transaction_date = dt]
                : ty \in {DEBIT, CREDIT}, ca \in {<<5, None>>, <<None, 1>>},
                  dt \in TxDates}
            \cup {[BaseRequest EXCEPT !.category_id = 5, !.is_posted = FALSE],
                  [BaseRequest EXCEPT !.category_id = 5, !.amount = 3,
                                      !.transaction_date = D2]})

BudgetUpdateCalls(t) ==
    {1} \X ({NoUpdate, IdentityOf(t),
             [NoUpdate EXCEPT !.set = {"amount"}, !.amount = 3],
             [NoUpdate EXCEPT !.set = {"category_id"}, !.category_id = 9]}
            \cup {[NoUpdate EXCEPT !.set = {"is_posted"}, !.is_posted = p]
                     : p \in BOOLEAN}
            \cup {[NoUpdate EXCEPT !.set = {"transaction_date"},
                                   !.transaction_date = dt] : dt \in TxDates})

AccountCreateRequests ==
    {[balance |-> b, currency |-> NoCurrency, is_active |-> TRUE] : b \in {0, 5}}
    \cup {[balance |-> 0, currency |-> "GBP", is_active |-> FALSE]}

NoAccountUpdate ==
    [set |-> {}, balance |-> 0, currency |-> NoCurrency, is_active |-> TRUE]

AccountUpdateRequests ==
    {NoAccountUpdate,
     [NoAccountUpdate EXCEPT !.set = {"balance"}, !.balance = 5],
     [NoAccountUpdate EXCEPT !.set = {"is_active"}],
     [NoAccountUpdate EXCEPT !.set = {"currency"}, !.currency = EUR],
     [NoAccountUpdate EXCEPT !.set = {"currency"}]}

\* Readings of the server's clock.  The requests of one behaviour follow each
\* other within the hour.
RequestInstant == DT(2024, 3, 5, 17)
UtcNowInstants == {DT(2024, 1, 20, 9), RequestInstant}

P_JAN == DT(2024, 1, 1, 0)
P_FEB == DT(2024, 2, 1, 0)
P_MAR == DT(2024, 3, 1, 0)

NoAllocationUpdate ==
    [set |-> {}, allocation_type |-> BUDGET, current_amount |-> 0,
     period_frequency |-> NoFrequency, period_start |-> NoDate,
     period_end |-> NoDate, category_ids |-> <<>>, is_active |-> TRUE]

BudgetEntryCreateRequests ==
    {[cadence |-> c, account_id |-> a, allocation_id |-> None]
        : c \in {NoCadence, "annual"}, a \in {None, 3}}

NoBudgetEntryUpdate ==
    [set |-> {}, cadence |-> NoCadence, account_id |-> None, allocation_id |-> None]

BudgetEntryUpdateRequests ==
    {[NoBudgetEntryUpdate EXCEPT !.set = {"cadence"}, !.cadence = "annual"],
     [NoBudgetEntryUpdate EXCEPT !.set = {"cadence"}],
     [NoBudgetEntryUpdate EXCEPT !.set = {"allocation_id"}, !.allocation_id = 1]}

AllocationCreateRequests ==
    {[account_id |-> a, current_amount |-> 0] : a \in {1, 9}}
    \cup {[account_id |-> 1, current_amount |-> 0 - 1]}

AllocationUpdateRequests ==
    {[NoAllocationUpdate EXCEPT !.set = {"current_amount"}, !.current_amount = 150],
     [NoAllocationUpdate EXCEPT !.set = {"period_start", "period_end"}],
     [NoAllocationUpdate EXCEPT !.set = {"period_start", "period_end"},
                                !.period_start = P_FEB, !.period_end = P_MAR],
     [NoAllocationUpdate EXCEPT !.set = {"allocation_type"}],
     [NoAllocationUpdate EXCEPT !.set = {"allocation_type"}, !.allocation_type = SAVINGS],
     [NoAllocationUpdate EXCEPT !.set = {"category_ids"},
                                !.category_ids = <<CategoryRef(9)>>]}

\* ------------------------------------------------------------------ state
VARIABLES
    accounts,        \* the accounts table
    transactions,    \* the transactions table
    next_id,         \* the transactions id sequence
    allocations,     \* the allocations table
    budget_entries,  \* the budget_entries table
    last,            \* the last request: handler, caller, body, and its result
    nops,            \* the number of committed requests so far
    sessions,        \* the open database sessions of requests in progress
    frame,           \* the locals of a _ensure_budget_period call in progress
    next_entry_id,   \* the budget_entries id sequence
    clock            \* the server's clock, to the hour: what utcnow() returns

vars == <<accounts, transactions, next_id, allocations, budget_entries, last, nops,
          sessions, frame, next_entry_id, clock>>

DB == [accounts |-> accounts, transactions |-> transactions, next_id |-> next_id,
       allocations |-> allocations, budget_entries |-> budget_entries,
       next_entry_id |-> next_entry_id, utcnow |-> clock]

\* No request is in progress: every request runs from its first query to its
\* commit without another one in between.
NoSessions == <<>>

\* No call of the roller is in progress.
NoFrame == [pc |-> "idle"]

NoRequest == [op |-> "none", user |-> None, id |-> None, req |-> <<>>,
              status |-> 200, steps |-> <<>>, dirty |-> FALSE, stamped |-> {},
              old |-> NoRow]

\* The database after the seed and the accounts' creation: two accounts of
\* user 1, one of user 2, a monthly budget allocation of user 1 (running, or
\* not started yet), a savings allocation, and one budget entry per user.
\* The server's clock shows one of instants.
SeededAt(instants) ==
    /\ accounts = <<AccountRow(1, 0), [AccountRow(1, 0) EXCEPT !.currency = USD],
                    AccountRow(2, 0)>>
    /\ transactions = <<>>
    /\ next_id = 1
    /\ allocations \in
         {<<a1, AllocationRow(1, SAVINGS, 0, NoFrequency, NoDate, NoDate,
                              <<CategoryRef(5)>>)>>
            : a1 \in {AllocationRow(1, BUDGET, 150, MONTHLY, P_JAN, P_FEB,
                                    <<CategoryRef(5), JunkRef, CategoryRef(7)>>),
                      AllocationRow(1, BUDGET, 0, NoFrequency, NoDate, NoDate,
                                    <<CategoryRef(5), JunkRef, CategoryRef(7)>>)}}
    /\ budget_entries = (1 :> BudgetEntryRow(1, "monthly"))
                        @@ (2 :> BudgetEntryRow(2, "quarterly"))
    /\ next_entry_id = 3
    /\ clock \in instants
    /\ last = NoRequest
    /\ nops = 0
    /\ sessions = NoSessions
    /\ frame = NoFrame

Init == SeededAt({RequestInstant})

\* The request's result becomes the state: the committed database, and the
\* record of the request and its response.
Respond(op, user, req, r) ==
    /\ accounts' = r.db.accounts
    /\ transactions' = r.db.transactions
    /\ next_id' = r.db.next_id
    /\ allocations' = r.db.allocations
    /\ budget_entries' = r.db.budget_entries
    /\ next_entry_id' = r.db.next_entry_id
    /\ clock' = clock
    /\ last' = [op |-> op, user |-> user, id |-> r.id, req |-> req,
                status |-> r.status, steps |-> r.steps, dirty |-> r.dirty,
                stamped |-> r.stamped, old |-> r.old]
    /\ nops' = nops + 1
    /\ sessions' = sessions
    /\ frame' = frame

\* A behaviour is explored for max requests, and up to its first rejected
\* request: a rejected request leaves the database as it was, so what can
\* follow it is what can follow the state before it.  Two answers of 500
\* come with a changed database and are followed: a create whose INSERT was
\* refused has spent a value of the id sequence, and an update_allocation
\* whose response failed validation has committed its row.
Open(max) ==
    /\ nops < max
    /\ \/ last.status \in {200, 201, 204}
       \/ last.op = "create_transaction" /\ last.status = 500
       \/ last.op = "update_allocation" /\ last.status = 500

Create(max, calls) ==
    /\ Open(max)
    /\ \E c \in calls :
          Respond("create_transaction", c[1], c[2], create_transaction(DB, c[1], c[2]))

Update(max, id, calls) ==
    /\ Open(max)
    /\ \E c \in calls :
          Respond("update_transaction", c[1], c[2],
                  update_transaction(DB, c[1], id, c[2]))

Delete(max, users) ==
    /\ Open(max)
    /\ \E u \in users, id \in 1..(next_id - 1) :
          Respond("delete_transaction", u, id, delete_transaction(DB, u, id))

CreateTransaction == Create(MaxOps, CreateCalls)

UpdateTransaction ==
    \E id \in DOMAIN transactions : Update(MaxOps, id, UpdateCalls(transactions[id]))

DeleteTransaction == Delete(MaxOps, Users)

CreateAccount ==
    /\ Open(MaxOps)
    /\ \E u \in Users, req \in AccountCreateRequests :
          Respond("create_account", u, req, create_account(DB, u, req))

UpdateAccount ==
    /\ Open(MaxOps)
    /\ \E u \in Users, id \in 1..Len(accounts), req \in AccountUpdateRequests :
          Respond("update_account", u, req @@ [account_id |-> id],
                  update_account(DB, u, id, req))

DeleteAccount ==
    /\ Open(MaxOps)
    /\ \E u \in Users, id \in 1..Len(accounts) :
          Respond("delete_account", u, id, delete_account(DB, u, id))

CreateAllocation ==
    /\ Open(MaxOps)
    /\ \E req \in AllocationCreateRequests :
          Respond("create_allocation", None, req, create_allocation(DB, req))

UpdateAllocationFrom(max, requests) ==
    /\ Open(max)
    /\ \E id \in 1..Len(allocations), req \in requests :
          Respond("update_allocation", None, req @@ [allocation_id |-> id],
                  update_allocation(DB, id, req))

UpdateAllocation == UpdateAllocationFrom(MaxOps, AllocationUpdateRequests)

DeleteAllocation ==
    /\ Open(MaxOps)
    /\ \E id \in 1..Len(allocations) :
          Respond("delete_allocation", None, id, delete_allocation(DB, id))

CreateBudgetEntry ==
    /\ Open(MaxOps)
    /\ \E u \in Users, req \in BudgetEntryCreateRequests :
          Respond("create_budget_entry", u, req, create_budget_entry(DB, u, req))

UpdateBudgetEntry ==
    /\ Open(MaxOps)
    /\ \E u \in Users, id \in DOMAIN budget_entries,
          req \in BudgetEntryUpdateRequests :
          Respond("update_budget_entry", u, req @@ [entry_id |-> id],
                  update_budget_entry(DB, u, id, req))

DeleteBudgetEntry ==
    /\ Open(MaxOps)
    /\ \E u \in Users, id \in 1..(next_entry_id - 1) :
          Respond("delete_budget_entry", u, id, delete_budget_entry(DB, u, id))

Next ==
    \/ CreateTransaction
    \/ UpdateTransaction
    \/ DeleteTransaction
    \/ CreateAccount
    \/ UpdateAccount
    \/ DeleteAccount
    \/ CreateAllocation
    \/ UpdateAllocation
    \/ DeleteAllocation
    \/ CreateBudgetEntry
    \/ UpdateBudgetEntry
    \/ DeleteBudgetEntry

Spec == Init /\ [][Next]_vars

\* The transaction handlers alone, on the accounts as first stored.
LedgerNext ==
    \/ CreateTransaction
    \/ UpdateTransaction
    \/ DeleteTransaction

LedgerSpec == Init /\ [][LedgerNext]_vars

\* The budget specification: longer behaviours of the transaction handlers
\* on the calls that resolve to the budget allocation.
BudgetCreate == Create(MaxBudgetOps, BudgetCreateCalls)

BudgetUpdate ==
    \E id \in DOMAIN transactions :
        Update(MaxBudgetOps, id, BudgetUpdateCalls(transactions[id]))

BudgetDelete == Delete(MaxBudgetOps, {1})

BudgetNext ==
    \/ BudgetCreate
    \/ BudgetUpdate
    \/ BudgetDelete

BudgetSpec == Init /\ [][BudgetNext]_vars

\* The roller specification: _ensure_budget_period alone, on one budget
\* allocation of every frequency, with bounds that are unset, half set,
\* current, inverted, empty, clamped to a month's end or off midnight, and
\* reference instants inside, on the edges of, and far from the window.
RollerFrequencies == BudgetPeriodFrequency \cup {NoFrequency}

RollerBounds ==
    {<<NoDate, NoDate>>, <<P_JAN, NoDate>>, <<NoDate, P_FEB>>,
     <<P_JAN, P_FEB>>, <<P_FEB, P_JAN>>, <<P_JAN, P_JAN>>,
     <<DT(2024, 1, 8, 0), DT(2024, 1, 15, 0)>>,
     <<DT(2024, 1, 15, 0), DT(2024, 1, 16, 0)>>,
     <<DT(2024, 1, 31, 18), DT(2024, 2, 29, 18)>>,
     <<DT(2023, 12, 31, 0), DT(2024, 1, 31, 0)>>}

\* Far from the window means many periods away: weeks for the daily
\* frequency, months for the weekly, years for the monthly and quarterly.
RollerReferences(frequency) ==
    {NoDate, D1, D2, P_JAN, P_FEB, DT(2024, 1, 31, 23), DT(2023, 12, 31, 23),
     DT(2024, 3, 1, 0)}
    \cup (CASE frequency = DAILY -> {DT(2024, 2, 20, 23), DT(2023, 12, 20, 5)}
            [] frequency = WEEKLY -> {DT(2024, 9, 20, 23), DT(2023, 6, 3, 5)}
            [] OTHER -> {DT(2026, 6, 30, 23), DT(2021, 11, 3, 5)})

RollerInit ==
    /\ accounts = <<>>
    /\ transactions = <<>>
    /\ next_id = 1
    /\ allocations \in
         {<<AllocationRow(1, BUDGET, am, fr, b[1], b[2], <<>>)>>
            : am \in {0, 150}, fr \in RollerFrequencies, b \in RollerBounds}
    /\ budget_entries = <<>>
    /\ next_entry_id = 1
    /\ clock \in UtcNowInstants
    /\ last = NoRequest
    /\ nops = 0
    /\ sessions = NoSessions
    /\ frame = NoFrame

EnsureBudgetPeriod ==
    /\ nops < MaxRolls
    /\ \E reference \in RollerReferences(allocations[1].period_frequency) :
          /\ allocations' = <<_ensure_budget_period(allocations[1], reference,
                                                    clock)>>
          /\ last' = [NoRequest EXCEPT !.op = "_ensure_budget_period",
                                       !.req = reference,
                                       !.old = allocations[1]]
    /\ nops' = nops + 1
    /\ UNCHANGED <<accounts, transactions, next_id, budget_entries, next_entry_id, clock, sessions, frame>>

RollerNext == EnsureBudgetPeriod

RollerSpec == RollerInit /\ [][RollerNext]_vars

\* The sharing specification: the allocations are the seeded user's (user
\* 1), and a debit of either user may name an account of the other user in
\* its unused transfer_to_account_id, which makes it visible to that user.
SharedRequests ==
    {[BaseRequest EXCEPT !.transfer_to_account_id = 3, !.category_id = c,
                         !.allocation_id = a, !.transaction_date = dt]
        : c \in {None, 5}, a \in {None, 1, 2}, dt \in TxDates}

SharedCreateCalls ==
    ({1} \X SharedRequests)
    \cup ({2} \X {[BaseRequest EXCEPT !.account_id = 3, !.category_id = 5,
                                      !.allocation_id = a,
                                      !.transfer_to_account_id = to]
                     : a \in {None, 1}, to \in {None, 1}})

SharedUpdateCalls(t) ==
    {1, 2} \X {NoUpdate, IdentityOf(t),
               [NoUpdate EXCEPT !.set = {"amount"}, !.amount = 3],
               [NoUpdate EXCEPT !.set = {"account_id"}, !.account_id = 3]}

SharedInit ==
    /\ accounts = <<AccountRow(1, 0), [AccountRow(1, 0) EXCEPT !.currency = USD],
                    AccountRow(2, 0)>>
    /\ transactions = <<>>
    /\ next_id = 1
    /\ allocations =
         <<AllocationRow(1, BUDGET, 0, MONTHLY, P_JAN, P_FEB, <<CategoryRef(5)>>),
           AllocationRow(1, SAVINGS, 0, NoFrequency, NoDate, NoDate,
                         <<CategoryRef(5)>>)>>
    /\ budget_entries = (1 :> BudgetEntryRow(1, "monthly"))
                        @@ (2 :> BudgetEntryRow(2, "quarterly"))
    /\ next_entry_id = 3
    /\ clock = RequestInstant
    /\ last = NoRequest
    /\ nops = 0
    /\ sessions = NoSessions
    /\ frame = NoFrame

SharedCreate == Create(MaxSharedOps, SharedCreateCalls)

SharedUpdate ==
    \E id \in DOMAIN transactions :
        Update(MaxSharedOps, id, SharedUpdateCalls(transactions[id]))

SharedDelete == Delete(MaxSharedOps, Users)

SharedNext ==
    \/ SharedCreate
    \/ SharedUpdate
    \/ SharedDelete

SharedSpec == SharedInit /\ [][SharedNext]_vars

\* ---------------------------------------------------------------------------
\* _ensure_budget_period statement by statement: the call with its
\* initialisation, one action per iteration and per exit of the two while
\* loops, the last one with the assignments to the allocation.
LoopInit ==
    /\ RollerInit
    /\ frame = NoFrame

EnterRoller ==
    /\ frame.pc = "idle"
    /\ \E reference \in RollerReferences(allocations[1].period_frequency) :
          \E frequency \in {IF allocations[1].period_frequency = NoFrequency
                             THEN MONTHLY ELSE allocations[1].period_frequency} :
            \E unset \in {allocations[1].period_start = NoDate
                             \/ allocations[1].period_end = NoDate} :
              \E start \in {IF unset
                             THEN _start_of_period(_normalize_reference(reference,
                                                                        clock),
                                                   frequency)
                             ELSE allocations[1].period_start} :
                /\ frame' = [pc |-> "forward", frequency |-> frequency,
                             normalized_reference |->
                                 _normalize_reference(reference, clock),
                             period_start |-> start,
                             period_end |-> IF unset
                                            THEN _compute_period_end(start, frequency)
                                            ELSE allocations[1].period_end,
                             period_changed |-> unset, iterations |-> 0]
                /\ last' = [NoRequest EXCEPT !.op = "_ensure_budget_period",
                                             !.req = reference,
                                             !.old = allocations[1]]
    /\ UNCHANGED <<accounts, transactions, next_id, allocations, budget_entries, next_entry_id, clock,
                   nops, sessions>>

ForwardIteration ==
    /\ frame.pc = "forward"
    /\ Key(frame.normalized_reference) >= Key(frame.period_end)
    /\ frame' = [frame EXCEPT
                   !.period_start = frame.period_end,
                   !.period_end = _compute_period_end(frame.period_end,
                                                      frame.frequency),
                   !.period_changed = TRUE,
                   !.iterations = @ + 1]
    /\ UNCHANGED <<accounts, transactions, next_id, allocations, budget_entries, next_entry_id, clock,
                   last, nops, sessions>>

ForwardExit ==
    /\ frame.pc = "forward"
    /\ Key(frame.normalized_reference) < Key(frame.period_end)
    /\ frame' = [frame EXCEPT !.pc = "backward"]
    /\ UNCHANGED <<accounts, transactions, next_id, allocations, budget_entries, next_entry_id, clock,
                   last, nops, sessions>>

BackwardIteration ==
    /\ frame.pc = "backward"
    /\ Key(frame.normalized_reference) < Key(frame.period_start)
    /\ frame' = [frame EXCEPT
                   !.period_start = _compute_previous_start(frame.period_start,
                                                            frame.frequency),
                   !.period_end = frame.period_start,
                   !.period_changed = TRUE,
                   !.iterations = @ + 1]
    /\ UNCHANGED <<accounts, transactions, next_id, allocations, budget_entries, next_entry_id, clock,
                   last, nops, sessions>>

BackwardExit ==
    /\ frame.pc = "backward"
    /\ Key(frame.normalized_reference) >= Key(frame.period_start)
    /\ frame' = [frame EXCEPT !.pc = "returned"]
    /\ allocations' = <<[allocations[1] EXCEPT
                            !.current_amount = IF frame.period_changed THEN 0 ELSE @,
                            !.period_start = frame.period_start,
                            !.period_end = frame.period_end]>>
    /\ nops' = nops + 1
    /\ UNCHANGED <<accounts, transactions, next_id, budget_entries, next_entry_id, clock, last, sessions>>

LoopNext ==
    \/ EnterRoller
    \/ ForwardIteration
    \/ ForwardExit
    \/ BackwardIteration
    \/ BackwardExit

LoopSpec == LoopInit /\ [][LoopNext]_vars

\* The call runs on one thread with nothing to wait for: a statement that can
\* run does run.
LoopLiveSpec == LoopSpec /\ WF_vars(LoopNext)

\* ---------------------------------------------------------------------------
\* Concurrent requests.  The handlers are plain `def` endpoints, run on worker
\* threads, each with its own session and its own database transaction
\* (PostgreSQL, READ COMMITTED).  A query loads committed rows into the
\* session; a row the session already holds keeps the attribute values first
\* loaded.  The handler computes the new values from the loaded ones
\* (account.balance += ..., allocation.current_amount = current + delta).  A
\* flush sends one statement per changed object, accounts before allocations
\* before transactions: an UPDATE sets the changed columns to the computed
\* values and holds the row until the session's COMMIT, an INSERT takes its
\* id from the sequence.  With autoflush every query flushes first;
\* db.commit() flushes, then commits.
Sessions == {1, 2}

\* The stored row both requests may meet: a posted debit of user 1 on
\* account 1, tagged category 5.
SeedRequest == [BaseRequest EXCEPT !.category_id = 5]

\* The requests in progress together.  Each passes its handler's checks, and
\* only session 2 names the stored row.  Every row is posted with a budget
\* delta and a category, so a handler makes each of its queries.
ConcurrentCalls(s) ==
    {[op |-> "create_transaction", user |-> 1, id |-> None,
      req |-> [BaseRequest EXCEPT !.transaction_type = ty, !.account_id = a,
                                  !.category_id = 5, !.amount = am]]
        : ty \in {DEBIT, CREDIT}, a \in {1, 2}, am \in {2, 3}}
    \cup (IF s = 1 THEN {}
          ELSE {[op |-> "update_transaction", user |-> 1, id |-> 1,
                 req |-> [NoUpdate EXCEPT !.set = {"amount"}, !.amount = 5]],
                [op |-> "delete_transaction", user |-> 1, id |-> 1, req |-> 1]})

\* What a session's statements have written since its BEGIN: the new row
\* versions, by table and id, and the ids of deleted transaction rows.
NoWrites ==
    [accounts |-> <<>>, allocations |-> <<>>, transactions |-> <<>>, deleted |-> {}]

\* A session before its request arrives.
\*   pc           the database call the handler makes next
\*   accounts, transactions, allocations
\*                the rows the session's queries loaded, as first loaded
\*   id           the transaction row: the path's id, or the id the INSERT
\*                drew (None before it)
\*   memory       the session's objects as the handler has left them
\*   sent         the column values the database holds for the session's
\*                objects: as loaded, then as last flushed
\*   written      the uncommitted row versions, whose rows the session holds
\*   loaded_at, allocations_loaded_at, committed_at
\*                the number of commits before the session's first query of
\*                the accounts, before its first query of the allocations,
\*                and up to its own COMMIT
Idle ==
    [pc |-> "idle", autoflush |-> FALSE, op |-> "none", user |-> None,
     id |-> None, req |-> <<>>,
     accounts |-> <<>>, transactions |-> <<>>, allocations |-> <<>>,
     memory |-> [accounts |-> <<>>, allocations |-> <<>>, row |-> NoRow],
     sent |-> [accounts |-> <<>>, allocations |-> <<>>, row |-> NoRow],
     written |-> NoWrites,
     loaded_at |-> 0, allocations_loaded_at |-> 0, committed_at |-> 0]

\* The database as the session's queries saw it.
ViewOf(session) ==
    [accounts |-> session.accounts, transactions |-> session.transactions,
     next_id |-> session.id, allocations |-> session.allocations,
     budget_entries |-> budget_entries, next_entry_id |-> next_entry_id,
     utcnow |-> clock]

\* The handler of the session's request on the rows its session loaded.
Handled(session) ==
    CASE session.op = "create_transaction" ->
           create_transaction(ViewOf(session), session.user, session.req)
      [] session.op = "update_transaction" ->
           update_transaction(ViewOf(session), session.user, session.id, session.req)
      [] OTHER -> delete_transaction(ViewOf(session), session.user, session.id)

\* The objects a flush has a statement for: the rows whose in-memory values
\* differ from what the database holds for the session.
DirtyAccounts(session) ==
    {a \in DOMAIN session.sent.accounts :
        session.memory.accounts[a] # session.sent.accounts[a]}

DirtyAllocations(session) ==
    {i \in DOMAIN session.sent.allocations :
        session.memory.allocations[i] # session.sent.allocations[i]}

\* The statement the flush has for the transaction row: the INSERT of the
\* added row, the UPDATE of the assigned row, the DELETE of the row marked by
\* db.delete (583).
TransactionStatement(session) ==
    CASE session.op = "create_transaction" ->
           IF session.id = None THEN "INSERT" ELSE "none"
      [] session.op = "update_transaction" ->
           IF /\ session.pc \in {"new_account", "new_allocations", "commit"}
              /\ session.memory.row # session.sent.row
           THEN "UPDATE" ELSE "none"
      [] OTHER ->
           IF session.pc = "commit" /\ session.id \notin session.written.deleted
           THEN "DELETE" ELSE "none"

\* The session is in a flush with statements left to send: before a query
\* when autoflush is on, and in db.commit().
Flushing(session) ==
    /\ \/ session.pc = "commit"
       \/ /\ session.autoflush
          /\ session.pc \in {"transaction", "account", "allocations",
                             "new_account", "new_allocations"}
    /\ \/ DirtyAccounts(session) # {}
       \/ DirtyAllocations(session) # {}
       \/ TransactionStatement(session) # "none"

\* The first of a flush's UPDATEs of one table: by primary key.
FirstOf(ids) == CHOOSE i \in ids : \A j \in ids : i <= j

\* A faulty variant of FlushAccounts: the change is added to the stored
\* value (UPDATE ... SET balance = balance + change).
FlushAccountChanges(stored, loaded, computed) ==
    [stored EXCEPT !.balance = @ + computed.balance - loaded.balance]

\* UPDATE accounts SET balance = <computed value> WHERE id = ...: the row
\* version the statement leaves, from the version stored.  Only a changed
\* column is written.
FlushAccounts(stored, loaded, computed) ==
    [stored EXCEPT !.balance = IF computed.balance # loaded.balance
                               THEN computed.balance ELSE @]

\* The same for an allocation row.
FlushAllocations(stored, loaded, computed) ==
    [stored EXCEPT
       !.current_amount = IF computed.current_amount # loaded.current_amount
                          THEN computed.current_amount ELSE @,
       !.period_start = IF computed.period_start # loaded.period_start
                        THEN computed.period_start ELSE @,
       !.period_end = IF computed.period_end # loaded.period_end
                      THEN computed.period_end ELSE @]

\* COMMIT makes the session's row versions the stored ones.
CommitRows(stored, written) ==
    [i \in DOMAIN stored |-> IF i \in DOMAIN written THEN written[i] ELSE stored[i]]

\* The same for the transactions table, with the inserted and deleted rows.
FlushTransactions(stored, written) ==
    [i \in ((DOMAIN stored) \cup (DOMAIN written.transactions)) \ written.deleted |->
        IF i \in DOMAIN written.transactions THEN written.transactions[i]
        ELSE stored[i]]

\* Session q holds the row: it has written it and has not committed.  An
\* UPDATE of the row by session s waits for q's COMMIT.
BlockedBy(s, q, table, id) ==
    /\ q # s
    /\ id \in DOMAIN sessions[q].written[table]

\* The commits so far.
Commits == Cardinality({q \in Sessions : sessions[q].committed_at > 0})

\* The database both requests start from: the seed state of Init and the
\* stored debit.  autoflush is the session factory's setting.
ConcurrentInit ==
    /\ \E seeded \in
            {create_transaction(
                 [accounts |-> <<AccountRow(1, 0),
                                 [AccountRow(1, 0) EXCEPT !.currency = USD],
                                 AccountRow(2, 0)>>,
                  transactions |-> <<>>, next_id |-> 1,
                  allocations |->
                      <<AllocationRow(1, BUDGET, 150, MONTHLY, P_JAN, P_FEB,
                                      <<CategoryRef(5), JunkRef, CategoryRef(7)>>),
                        AllocationRow(1, SAVINGS, 0, NoFrequency, NoDate, NoDate,
                                      <<CategoryRef(5)>>)>>,
                  budget_entries |-> (1 :> BudgetEntryRow(1, "monthly")),
                  next_entry_id |-> 2, utcnow |-> RequestInstant],
                 1, SeedRequest).db} :
          /\ accounts = seeded.accounts
          /\ transactions = seeded.transactions
          /\ next_id = seeded.next_id
          /\ allocations = seeded.allocations
          /\ budget_entries = seeded.budget_entries
          /\ next_entry_id = seeded.next_entry_id
          /\ clock = seeded.utcnow
    /\ last = NoRequest
    /\ nops = 0
    /\ \E autoflush \in BOOLEAN :
          sessions = [s \in Sessions |-> [Idle EXCEPT !.autoflush = autoflush]]
    /\ frame = NoFrame

\* The request arrives and the handler's first query loads the account rows:
\* the request's account (create_transaction, 318), the caller's accounts
\* (update_transaction 382, delete_transaction 542).  create_transaction
\* then adds the row (332) and changes the balance on the session (334-342).
Begin ==
    \E s \in Sessions : \E call \in ConcurrentCalls(s) :
        /\ sessions[s].pc = "idle"
        /\ \E loaded \in
                {[sessions[s] EXCEPT
                    !.pc = IF call.op = "create_transaction"
                           THEN "allocations" ELSE "transaction",
                    !.op = call.op, !.user = call.user, !.id = call.id,
                    !.req = call.req,
                    !.accounts = accounts, !.sent.accounts = accounts,
                    !.memory.accounts = accounts,
                    !.loaded_at = Commits]} :
              sessions' =
                 [sessions EXCEPT ![s] =
                    IF call.op # "create_transaction" THEN loaded
                    ELSE [loaded EXCEPT
                            !.memory.accounts = Handled(loaded).db.accounts,
                            !.memory.row =
                                Handled(loaded).db.transactions[Handled(loaded).id]]]
        /\ UNCHANGED <<accounts, transactions, next_id, allocations, budget_entries, next_entry_id, clock,
                       last, nops, frame>>

\* The query of the transaction row (update_transaction 385,
\* delete_transaction 545).
LoadTransaction ==
    \E s \in Sessions :
        /\ sessions[s].pc = "transaction"
        /\ sessions[s].id \in DOMAIN transactions
        /\ sessions' =
              [sessions EXCEPT
                 ![s].pc = "account",
                 ![s].transactions = (sessions[s].id :> transactions[sessions[s].id]),
                 ![s].memory.row = transactions[sessions[s].id],
                 ![s].sent.row = transactions[sessions[s].id]]
        /\ UNCHANGED <<accounts, transactions, next_id, allocations, budget_entries, next_entry_id, clock,
                       last, nops, frame>>

\* The query of the account by id, once the autoflush has sent its
\* statements.  The row is the caller's and in the session since the first
\* query: the query returns the session's object with the values it holds.
\* At 415 (update_transaction) and 562 (delete_transaction) the handler then
\* reverses the stored row's balance effect; at 499 (update_transaction) it
\* sets the currencies and applies the new balance effect (516-523).
LoadAccount ==
    \E s \in Sessions :
        /\ sessions[s].pc \in {"account", "new_account"}
        /\ ~Flushing(sessions[s])
        /\ sessions' =
              IF sessions[s].pc = "account"
              THEN [sessions EXCEPT
                      ![s].pc = "allocations",
                      ![s].memory.accounts =
                          ReverseBalanceEffect(@, sessions[s].memory.row)]
              ELSE [sessions EXCEPT
                      ![s].pc = "new_allocations",
                      ![s].memory.row = UpdateCurrencies(ViewOf(sessions[s]), @),
                      ![s].memory.accounts =
                          UpdateBalanceEffect(
                              @, UpdateCurrencies(ViewOf(sessions[s]),
                                                  sessions[s].memory.row))]
        /\ UNCHANGED <<accounts, transactions, next_id, allocations, budget_entries, next_entry_id, clock,
                       last, nops, frame>>

\* The budget delta the handler applies after its allocation query: the
\* request's (create_transaction 344-353), the updated row's
\* (update_transaction 524-532).
ApplyBudgetEffect(db, current_user, t) ==
    IF t.is_posted /\ _budget_delta_for_transaction(t.transaction_type, t.amount) # 0
    THEN _apply_budget_delta(
             db.allocations,
             _get_budget_allocations_for_transaction(
                 db, current_user, t.allocation_id, t.category_id),
             _budget_delta_for_transaction(t.transaction_type, t.amount),
             t.transaction_date, db.utcnow)
    ELSE db.allocations

\* The query of the caller's budget allocations
\* (_get_budget_allocations_for_transaction), once the autoflush has sent its
\* statements, and what the handler does up to its next database call.
\*   create_transaction 347: the rows are loaded; the budget delta (353).
\*   update_transaction 429: the rows are loaded; the reversal of the stored
\*     row's delta (435) and setattr (461-464).
\*   update_transaction 526: the query returns the session's objects; the
\*     updated row's delta (532).
\*   delete_transaction 575: the rows are loaded; the reversal (581) and
\*     db.delete (583).
LoadAllocations ==
    \E s \in Sessions :
        /\ sessions[s].pc \in {"allocations", "new_allocations"}
        /\ ~Flushing(sessions[s])
        /\ \E view \in {[ViewOf(sessions[s]) EXCEPT
                           !.allocations = IF sessions[s].pc = "allocations"
                                           THEN allocations
                                           ELSE sessions[s].memory.allocations]} :
              sessions' =
                 CASE sessions[s].pc = "new_allocations" ->
                        [sessions EXCEPT
                           ![s].pc = "commit",
                           ![s].memory.allocations =
                               ApplyBudgetEffect(view, sessions[s].user,
                                                 sessions[s].memory.row)]
                   [] sessions[s].op = "create_transaction" ->
                        [sessions EXCEPT
                           ![s].pc = "commit",
                           ![s].allocations = allocations,
                           ![s].sent.allocations = allocations,
                           ![s].allocations_loaded_at = Commits,
                           ![s].memory.allocations =
                               ApplyBudgetEffect(view, sessions[s].user,
                                                 sessions[s].memory.row)]
                   [] sessions[s].op = "update_transaction" ->
                        [sessions EXCEPT
                           ![s].pc = "new_account",
                           ![s].allocations = allocations,
                           ![s].sent.allocations = allocations,
                           ![s].allocations_loaded_at = Commits,
                           ![s].memory.allocations =
                               ReverseBudgetEffect(view, sessions[s].user,
                                                   sessions[s].memory.row),
                           ![s].memory.row =
                               SetFields(view, sessions[s].req, @)]
                   [] OTHER ->
                        [sessions EXCEPT
                           ![s].pc = "commit",
                           ![s].allocations = allocations,
                           ![s].sent.allocations = allocations,
                           ![s].allocations_loaded_at = Commits,
                           ![s].memory.allocations =
                               ReverseBudgetEffect(view, sessions[s].user,
                                                   sessions[s].memory.row)]
        /\ UNCHANGED <<accounts, transactions, next_id, allocations, budget_entries, next_entry_id, clock,
                       last, nops, frame>>

\* A flush sends UPDATE accounts for a changed account row.  The statement
\* waits while another session holds the row, then writes the value this
\* session computed.
SendAccountUpdate ==
    \E s \in Sessions :
        /\ Flushing(sessions[s])
        /\ DirtyAccounts(sessions[s]) # {}
        /\ \E a \in {FirstOf(DirtyAccounts(sessions[s]))} :
              /\ \A q \in Sessions : ~BlockedBy(s, q, "accounts", a)
              /\ sessions' =
                    [sessions EXCEPT
                       ![s].written.accounts =
                           (a :> FlushAccounts(
                                     IF a \in DOMAIN @ THEN @[a] ELSE accounts[a],
                                     sessions[s].sent.accounts[a],
                                     sessions[s].memory.accounts[a])) @@ @,
                       ![s].sent.accounts[a] = sessions[s].memory.accounts[a]]
        /\ UNCHANGED <<accounts, transactions, next_id, allocations, budget_entries, next_entry_id, clock,
                       last, nops, frame>>

\* A flush sends UPDATE allocations for a changed allocation row, once the
\* account rows are sent.
SendAllocationUpdate ==
    \E s \in Sessions :
        /\ Flushing(sessions[s])
        /\ DirtyAccounts(sessions[s]) = {}
        /\ DirtyAllocations(sessions[s]) # {}
        /\ \E i \in {FirstOf(DirtyAllocations(sessions[s]))} :
              /\ \A q \in Sessions : ~BlockedBy(s, q, "allocations", i)
              /\ sessions' =
                    [sessions EXCEPT
                       ![s].written.allocations =
                           (i :> FlushAllocations(
                                     IF i \in DOMAIN @ THEN @[i] ELSE allocations[i],
                                     sessions[s].sent.allocations[i],
                                     sessions[s].memory.allocations[i])) @@ @,
                       ![s].sent.allocations[i] = sessions[s].memory.allocations[i]]
        /\ UNCHANGED <<accounts, transactions, next_id, allocations, budget_entries, next_entry_id, clock,
                       last, nops, frame>>

\* A flush sends the statement of the transaction row last: the INSERT takes
\* the next value of the id sequence, which no rollback gives back.
SendTransactionWrite ==
    \E s \in Sessions :
        /\ Flushing(sessions[s])
        /\ DirtyAccounts(sessions[s]) = {}
        /\ DirtyAllocations(sessions[s]) = {}
        /\ \E statement \in {TransactionStatement(sessions[s])} :
              /\ sessions' =
                    CASE statement = "INSERT" ->
                           [sessions EXCEPT
                              ![s].id = next_id,
                              ![s].written.transactions =
                                  (next_id :> sessions[s].memory.row) @@ @,
                              ![s].sent.row = sessions[s].memory.row]
                      [] statement = "UPDATE" ->
                           [sessions EXCEPT
                              ![s].written.transactions =
                                  (sessions[s].id :> sessions[s].memory.row) @@ @,
                              ![s].sent.row = sessions[s].memory.row]
                      [] OTHER ->
                           [sessions EXCEPT
                              ![s].written.deleted = @ \cup {sessions[s].id}]
              /\ next_id' = IF statement = "INSERT" THEN next_id + 1 ELSE next_id
        /\ UNCHANGED <<accounts, transactions, allocations, budget_entries, next_entry_id, clock,
                       last, nops, frame>>

\* db.commit(), once its flush has sent every statement: COMMIT stores the
\* session's row versions and lets go of its rows.
Commit ==
    \E s \in Sessions :
        /\ sessions[s].pc = "commit"
        /\ ~Flushing(sessions[s])
        /\ accounts' = CommitRows(accounts, sessions[s].written.accounts)
        /\ allocations' = CommitRows(allocations, sessions[s].written.allocations)
        /\ transactions' = FlushTransactions(transactions, sessions[s].written)
        /\ sessions' = [sessions EXCEPT ![s].pc = "refresh",
                                        ![s].written = NoWrites,
                                        ![s].committed_at = Commits + 1]
        /\ UNCHANGED <<next_id, budget_entries, next_entry_id, clock, last, nops, frame>>

\* db.refresh(db_transaction) (356, 535) reads the session's own row back,
\* and the handler returns: the response.  delete_transaction returns its
\* message with no refresh.
Refresh ==
    \E s \in Sessions :
        /\ sessions[s].pc = "refresh"
        /\ \E r \in {Handled(sessions[s])} :
              last' = [op |-> sessions[s].op, user |-> sessions[s].user,
                       id |-> sessions[s].id,
                       req |-> sessions[s].req, status |-> r.status,
                       steps |-> r.steps, dirty |-> r.dirty,
                       stamped |-> r.stamped, old |-> r.old]
        /\ nops' = nops + 1
        /\ sessions' = [sessions EXCEPT ![s].pc = "done"]
        /\ UNCHANGED <<accounts, transactions, next_id, allocations, budget_entries, next_entry_id, clock,
                       frame>>

ConcurrentNext ==
    \/ Begin
    \/ LoadTransaction
    \/ LoadAccount
    \/ LoadAllocations
    \/ SendAccountUpdate
    \/ SendAllocationUpdate
    \/ SendTransactionWrite
    \/ Commit
    \/ Refresh

ConcurrentSpec == ConcurrentInit /\ [][ConcurrentNext]_vars

\* ---------------------------------------------------------------------------
\* The currency fields: requests of user 1 on the PHP account 1 and the USD
\* account 2, with and without currency, projected_amount and original_amount.
CurrencyRequests ==
    {[BaseRequest EXCEPT !.account_id = a[1], !.transaction_type = a[2],
                         !.transfer_from_account_id = a[3],
                         !.transfer_to_account_id = a[4],
                         !.currency = c,
                         !.projected_amount = pa, !.projected_currency = pc,
                         !.original_amount = oa]
        : a \in {<<1, DEBIT, None, None>>, <<2, DEBIT, None, None>>,
                 <<1, TRANSFER, 1, 2>>, <<2, TRANSFER, 2, 1>>},
          c \in {NoCurrency, EUR}, pa \in {None, 5}, pc \in {NoCurrency, EUR},
          oa \in {None, 5}}

\* With them, a debit that names an allocation no row has.
CurrencyCreateCalls ==
    {1} \X (CurrencyRequests \cup {[BaseRequest EXCEPT !.allocation_id = 9]})

\* Update bodies: currency sent as null, an amount added without its
\* currency, the row moved to the other account, an allocation no row has,
\* transaction_date sent as null.
CurrencyUpdateCalls(t) ==
    {1} \X {NoUpdate,
            [NoUpdate EXCEPT !.set = {"currency"}, !.currency = NoCurrency],
            [NoUpdate EXCEPT !.set = {"projected_amount"}, !.projected_amount = 5],
            [NoUpdate EXCEPT !.set = {"original_amount", "currency"},
                             !.original_amount = 5, !.currency = EUR],
            [NoUpdate EXCEPT !.set = {"account_id"}, !.account_id = 3 - t.account_id],
            [NoUpdate EXCEPT !.set = {"allocation_id"}, !.allocation_id = 9],
            [NoUpdate EXCEPT !.set = {"transaction_date"},
                             !.transaction_date = NoDate]}

CurrencyCreate == Create(MaxCurrencyOps, CurrencyCreateCalls)

CurrencyUpdate ==
    \E id \in DOMAIN transactions :
        Update(MaxCurrencyOps, id, CurrencyUpdateCalls(transactions[id]))

CurrencyNext ==
    \/ CurrencyCreate
    \/ CurrencyUpdate

\* The currency specification starts at either reading of the clock.
CurrencyInit == SeededAt(UtcNowInstants)

CurrencySpec == CurrencyInit /\ [][CurrencyNext]_vars

\* --------------------------------------------------------------- properties
TransactionOps == {"create_transaction", "update_transaction", "delete_transaction"}

\* The database after the step, for properties of a step.
DBNext == [accounts |-> accounts', transactions |-> transactions',
           next_id |-> next_id', allocations |-> allocations',
           budget_entries |-> budget_entries',
           next_entry_id |-> next_entry_id', utcnow |-> clock']

\* The signed effect the ledger rules give a transaction on an account:
\* credit +amount and debit -amount on the primary account, transfer
\* -(amount + fee) on the source and +amount on the destination, nothing
\* while the transaction is not posted.
LedgerEffect(t, a) ==
    IF ~t.is_posted THEN 0
    ELSE IF t.transaction_type = CREDIT
         THEN (IF a = t.account_id THEN t.amount ELSE 0)
    ELSE IF t.transaction_type = DEBIT
         THEN (IF a = t.account_id THEN 0 - t.amount ELSE 0)
    ELSE (IF a = t.transfer_from_account_id THEN 0 - (t.amount + t.transfer_fee) ELSE 0)
         + (IF a = t.transfer_to_account_id THEN t.amount ELSE 0)

\* C1: in every reachable state each account's stored balance equals the
\* running balance obtained by replaying, from zero, the posted transactions
\* that touch the account.
C1_BalanceEqualsReplay ==
    \A a \in 1..Len(accounts) : accounts[a].balance = calculated_balance(DB, a)

\* C2: Account.balance is changed only by transaction create, update and
\* delete: every other operation leaves the balance of every existing account
\* as it was.
C2_BalanceChangedOnlyByLedger ==
    [][last'.op \notin TransactionOps
         => \A a \in 1..Len(accounts) : accounts'[a].balance = accounts[a].balance]_vars

\* C3: a successful create_transaction changes each account's balance by the
\* signed effect of the request on it (credit +amount, debit -amount, transfer
\* -(amount + fee) on the source and +amount on the destination) when the
\* request is posted, and changes no balance and no allocation's
\* current_amount when it is not; no other account changes.
C3_CreateEffect ==
    [][(last'.op = "create_transaction" /\ last'.status = 200)
         => /\ Len(accounts') = Len(accounts)
            /\ \A a \in 1..Len(accounts) :
                  /\ accounts'[a].balance
                       = accounts[a].balance + LedgerEffect(last'.req, a)
                  /\ a \notin {last'.req.account_id,
                               last'.req.transfer_from_account_id,
                               last'.req.transfer_to_account_id}
                       => accounts'[a] = accounts[a]
            /\ ~last'.req.is_posted
                 => /\ \A a \in 1..Len(accounts) :
                          accounts'[a].balance = accounts[a].balance
                    /\ \A i \in 1..Len(allocations) :
                          allocations'[i].current_amount
                            = allocations[i].current_amount]_vars

\* C3 witness: a posted transfer of 2 with fee 1 from account 1 to account 2
\* was created on zero balances.
C3_Witness ==
    /\ last.op = "create_transaction" /\ last.status = 200 /\ nops = 1
    /\ last.req.transaction_type = TRANSFER /\ last.req.is_posted
    /\ last.req.transfer_fee = 1
    /\ accounts[1].balance = 0 - 3 /\ accounts[2].balance = 2

\* C4: creating a posted transfer of amount A with fee F from X to Y
\* decreases X's balance by A+F and increases Y's by A, and deleting that
\* transfer then restores both balances to their values before the transfer.
C4_TransferSymmetry ==
    [][(/\ last'.op = "create_transaction" /\ last'.status = 200
        /\ last'.req.transaction_type = TRANSFER /\ last'.req.is_posted)
         => LET X == last'.req.transfer_from_account_id
                Y == last'.req.transfer_to_account_id
                A == last'.req.amount
                F == last'.req.transfer_fee
            IN \A deleted \in {delete_transaction(DBNext, last'.user, last'.id)} :
               /\ X # Y
               /\ accounts'[X].balance = accounts[X].balance - (A + F)
               /\ accounts'[Y].balance = accounts[Y].balance + A
               /\ deleted.status = 200
               /\ deleted.db.accounts[X].balance = accounts[X].balance
               /\ deleted.db.accounts[Y].balance = accounts[Y].balance]_vars

\* C4 witness: a posted transfer with a fee, created as the first request,
\* was deleted by the second, and the balances are the initial ones again.
C4_Witness ==
    /\ last.op = "delete_transaction" /\ last.status = 200 /\ nops = 2
    /\ last.old # NoRow
    /\ last.old.transaction_type = TRANSFER /\ last.old.is_posted
    /\ last.old.transfer_fee = 1
    /\ \A a \in 1..Len(accounts) : accounts[a].balance = 0

\* The body names only values the stored row already has.
SameValues(upd, t) == \A f \in upd.set : upd[f] = t[f]

\* The budget allocations a row's delta goes to, for a caller: none unless
\* the row is a posted debit or credit with a non-zero amount.
ResolvedSet(db, user, t) ==
    IF t.is_posted /\ _budget_delta_for_transaction(t.transaction_type, t.amount) # 0
    THEN LET ids == _get_budget_allocations_for_transaction(
                        db, user, t.allocation_id, t.category_id)
         IN {ids[k] : k \in 1..Len(ids)}
    ELSE {}

\* The allocation's current period is set and holds the date.
InPeriod(allocation, date) ==
    /\ allocation.period_start # NoDate
    /\ allocation.period_end # NoDate
    /\ Key(allocation.period_start) <= Key(date)
    /\ Key(date) < Key(allocation.period_end)

SamePeriod(a, b) == a.period_start = b.period_start /\ a.period_end = b.period_end

\* C5 as stated: an update to identical values leaves every balance and every
\* allocation's current_amount, period_start and period_end as they were,
\* whatever the type, posted state, date and period state.
C5_IdentityUpdateChangesNothing ==
    [][(/\ last'.op = "update_transaction" /\ last'.status = 200
        /\ SameValues(last'.req, last'.old))
         => /\ \A a \in 1..Len(accounts) : accounts'[a].balance = accounts[a].balance
            /\ \A i \in 1..Len(allocations) :
                  /\ allocations'[i].current_amount = allocations[i].current_amount
                  /\ SamePeriod(allocations'[i], allocations[i])]_vars

\* C5 amended: an update to identical values leaves every balance as it was;
\* it leaves an allocation's current_amount and period as they were unless
\* the transaction resolves to that allocation with a date outside the
\* allocation's current period, and then the allocation ends in the period
\* holding the date with current_amount 0.
C5_IdentityUpdateInPeriod ==
    [][(/\ last'.op = "update_transaction" /\ last'.status = 200
        /\ SameValues(last'.req, last'.old))
         => /\ \A a \in 1..Len(accounts) : accounts'[a].balance = accounts[a].balance
            /\ \A i \in 1..Len(allocations) :
                  IF /\ i \in ResolvedSet(DB, last'.user, last'.old)
                     /\ ~InPeriod(allocations[i], last'.old.transaction_date)
                  THEN /\ InPeriod(allocations'[i], last'.old.transaction_date)
                       /\ allocations'[i].current_amount = 0
                  ELSE /\ allocations'[i].current_amount = allocations[i].current_amount
                       /\ SamePeriod(allocations'[i], allocations[i])]_vars

\* C5 witness: a posted debit of category 5, dated in the allocation's
\* running period, was updated with all its own values: the 150 grown to 152
\* by its creation are still 152.
C5_Witness ==
    /\ last.op = "update_transaction" /\ last.status = 200
    /\ last.req.set = DOMAIN BaseRequest /\ SameValues(last.req, last.old)
    /\ last.old.is_posted /\ last.old.transaction_type = DEBIT
    /\ last.old.category_id = 5 /\ last.old.transaction_date = D1
    /\ allocations[1].current_amount = 152 /\ allocations[1].period_start = P_JAN

\* C6: after a successful update every account's balance is its balance
\* before, minus the old row's signed effect on it (if the old row was
\* posted), plus the updated row's signed effect on it (if it is posted).
C6_UpdateBalances ==
    [][(last'.op = "update_transaction" /\ last'.status = 200)
         => /\ Len(accounts') = Len(accounts)
            /\ \A a \in 1..Len(accounts) :
                  accounts'[a].balance
                    = accounts[a].balance - LedgerEffect(last'.old, a)
                        + LedgerEffect(transactions'[last'.id], a)]_vars

\* C6 witness: a posted debit on account 1 became a posted transfer from
\* account 2 to account 1.
C6_Witness ==
    /\ last.op = "update_transaction" /\ last.status = 200
    /\ last.old.is_posted /\ last.old.transaction_type = DEBIT
    /\ last.old.account_id = 1 /\ last.old.amount = 2
    /\ transactions[last.id].transaction_type = TRANSFER
    /\ transactions[last.id].is_posted
    /\ transactions[last.id].account_id = 2
    /\ accounts[1].balance = 2 /\ accounts[2].balance = 0 - 2

\* C7: on a successful update the old budget delta leaves the allocations the
\* old category / allocation resolve to, in the period of the old date, and
\* the new delta enters the allocations the new category / allocation resolve
\* to, in the period of the new date; an allocation resolved only by the old
\* values gets the reversal only, one resolved only by the new values the new
\* delta only, and any other allocation is untouched.  A period that does not
\* hold the date it is rolled to restarts from 0.
C7_UpdateBudgets ==
    [][(last'.op = "update_transaction" /\ last'.status = 200)
         => LET old == last'.old
                new == transactions'[last'.id]
                O == ResolvedSet(DB, last'.user, old)
                N == ResolvedSet(DB, last'.user, new)
                old_delta == _budget_delta_for_transaction(old.transaction_type,
                                                           old.amount)
                new_delta == _budget_delta_for_transaction(new.transaction_type,
                                                           new.amount)
            IN \A i \in 1..Len(allocations) :
                  LET before == allocations[i]
                      after == allocations'[i]
                      from_old == IF InPeriod(before, old.transaction_date)
                                  THEN before.current_amount ELSE 0
                      from_new == IF InPeriod(before, new.transaction_date)
                                  THEN before.current_amount ELSE 0
                  IN /\ (i \notin O /\ i \notin N) => after = before
                     /\ (i \in O /\ i \notin N)
                          => /\ InPeriod(after, old.transaction_date)
                             /\ after.current_amount = from_old - old_delta
                             /\ InPeriod(before, old.transaction_date)
                                  => SamePeriod(after, before)
                     /\ (i \notin O /\ i \in N)
                          => /\ InPeriod(after, new.transaction_date)
                             /\ after.current_amount = from_new + new_delta
                             /\ InPeriod(before, new.transaction_date)
                                  => SamePeriod(after, before)
                     /\ (i \in O /\ i \in N)
                          => /\ InPeriod(after, new.transaction_date)
                             /\ after.current_amount
                                  = IF InPeriod(after, old.transaction_date)
                                    THEN from_old - old_delta + new_delta
                                    ELSE new_delta]_vars

\* C7 witness: a posted debit of category 5 dated January, counted in the
\* January period, was moved to February: the allocation is in the February
\* period and holds the debit's amount alone.
C7_Witness ==
    /\ last.op = "update_transaction" /\ last.status = 200
    /\ last.old.is_posted /\ last.old.transaction_type = DEBIT
    /\ last.old.category_id = 5 /\ last.old.transaction_date = D1
    /\ transactions[last.id].transaction_date = D2
    /\ transactions[last.id].is_posted
    /\ allocations[1].period_start = P_FEB /\ allocations[1].period_end = P_MAR
    /\ allocations[1].current_amount = 2

\* C8 as stated: deleting a transaction right after its creation removes the
\* record and restores every account balance and every allocation's
\* current_amount to the value before the creation.
C8_DeleteRestoresAll ==
    [][(last'.op = "create_transaction" /\ last'.status = 200)
         => \A deleted \in {delete_transaction(DBNext, last'.user, last'.id)} :
               /\ deleted.status = 200
               /\ last'.id \notin DOMAIN deleted.db.transactions
               /\ \A a \in 1..Len(accounts) :
                     deleted.db.accounts[a].balance = accounts[a].balance
               /\ \A i \in 1..Len(allocations) :
                     deleted.db.allocations[i].current_amount
                       = allocations[i].current_amount]_vars

\* C8 amended: deleting a transaction right after its creation, by the caller
\* who created it, removes the record and restores every account balance; it
\* restores an allocation's current_amount unless the posted transaction
\* resolved to that allocation with a date outside the allocation's period at
\* creation, and then the allocation stays in the period holding the date
\* with current_amount 0.  An unposted transaction changes no balance and no
\* current_amount, at creation or at deletion.
C8_DeleteRestoresWithinPeriod ==
    [][(last'.op = "create_transaction" /\ last'.status = 200)
         => \A deleted \in {delete_transaction(DBNext, last'.user, last'.id)} :
            LET t == transactions'[last'.id]
            IN /\ deleted.status = 200
               /\ last'.id \notin DOMAIN deleted.db.transactions
               /\ \A a \in 1..Len(accounts) :
                     deleted.db.accounts[a].balance = accounts[a].balance
               /\ \A i \in 1..Len(allocations) :
                     IF /\ i \in ResolvedSet(DB, last'.user, t)
                        /\ ~InPeriod(allocations[i], t.transaction_date)
                     THEN /\ deleted.db.allocations[i].current_amount = 0
                          /\ InPeriod(deleted.db.allocations[i], t.transaction_date)
                     ELSE /\ deleted.db.allocations[i].current_amount
                               = allocations[i].current_amount
                          /\ SamePeriod(deleted.db.allocations[i], allocations[i])
               /\ ~t.is_posted
                    => /\ deleted.db.accounts = accounts
                       /\ deleted.db.allocations = allocations]_vars

\* C8 witness: a posted debit of category 5 dated February was created while
\* the allocation held 150 in its January period, and then deleted: the
\* balance is back at 0 and the allocation holds 0 in the February period.
C8_Witness ==
    /\ last.op = "delete_transaction" /\ last.status = 200 /\ nops = 2
    /\ last.old # NoRow
    /\ last.old.is_posted /\ last.old.transaction_type = DEBIT
    /\ last.old.category_id = 5 /\ last.old.transaction_date = D2
    /\ transactions = <<>>
    /\ accounts[1].balance = 0
    /\ allocations[1].period_start = P_FEB /\ allocations[1].current_amount = 0

\* C9: a transaction create, update or delete that fails leaves the persisted
\* state as it was: no balance, no allocation, no transaction row differs.
\* (That holds also of a request refused at the commit; a request refused
\* with NotFound or ValidationError has not drawn an id either.)
C9_FailureChangesNothing ==
    [][(last'.op \in TransactionOps /\ last'.status # 200)
         => /\ accounts' = accounts
            /\ allocations' = allocations
            /\ transactions' = transactions
            /\ budget_entries' = budget_entries
            /\ next_entry_id' = next_entry_id
            /\ last'.status \in {400, 404} => next_id' = next_id]_vars

\* C9 witness: an update of a posted transaction failed at the account
\* lookup, after the old effect had been reversed and the fields set on the
\* session.
C9_Witness ==
    /\ last.op = "update_transaction" /\ last.status = 404 /\ last.dirty
    /\ last.old.is_posted
    /\ Len(last.steps) >= 3
    /\ last.steps[1] = "reverse_balance"
    /\ last.steps[Len(last.steps)] = "resolve_accounts"
    /\ transactions[last.id] = last.old

\* No validation step follows a mutation step.
ValidationFirst(steps) ==
    \A i, j \in 1..Len(steps) :
        i < j => ~(steps[i] \in MutationSteps /\ steps[j] \in ValidationSteps)

\* C10 as stated: in every transaction create, update and delete request all
\* validation steps complete before the first mutation.
C10_ValidationBeforeMutation ==
    last.op \in TransactionOps => ValidationFirst(last.steps)

\* C10 amended: in a create or delete request every validation step
\* completes before the first mutation; in an update request the reversal of
\* the old effect and the assignment of the fields may precede validation
\* steps, and the new balance and budget effects are applied after all of
\* them.
C10_ValidationBeforeNewEffect ==
    /\ last.op \in {"create_transaction", "delete_transaction"}
         => ValidationFirst(last.steps)
    /\ last.op = "update_transaction"
         => \A i, j \in 1..Len(last.steps) :
               (i < j /\ last.steps[i] \in MutationSteps
                      /\ last.steps[j] \in ValidationSteps)
                 => last.steps[i] \in {"reverse_balance", "reverse_budget", "set_fields"}

\* C10 witness: an update of a posted debit into a transfer reversed the old
\* effect and set the fields, then validated the transfer and resolved the
\* accounts, then applied the new effect.
C10_Witness ==
    /\ last.op = "update_transaction" /\ last.status = 200
    /\ last.steps = <<"reverse_balance", "reverse_budget", "set_fields",
                      "validate_transfer", "resolve_accounts", "apply_balance">>

\* The transfer configuration of a request is invalid for the caller: an
\* account is missing, both are the same, one does not exist or is not the
\* caller's, or account_id is not the source.
BadTransfer(db, user, row) ==
    \/ row.transfer_from_account_id = None
    \/ row.transfer_to_account_id = None
    \/ row.transfer_from_account_id = row.transfer_to_account_id
    \/ ~AccountOwnedBy(db, row.transfer_from_account_id, user)
    \/ ~AccountOwnedBy(db, row.transfer_to_account_id, user)
    \/ row.account_id # row.transfer_from_account_id

\* The values an update asks the row to have: the body's where it sets a
\* field, the stored row's elsewhere.
Requested(upd, old) ==
    [f \in {"transaction_type", "account_id", "transfer_from_account_id",
            "transfer_to_account_id"} |-> Given(upd, old, f)]

\* C11 as stated: a create or an update that results in a transfer-type
\* transaction fails with 400 or 404 and stores nothing whenever the source
\* or the destination is missing, both are equal, either does not exist or
\* is not the caller's, or the supplied account_id differs from
\* transfer_from_account_id.
C11_InvalidTransferRejected ==
    [][/\ (/\ last'.op = "create_transaction"
           /\ last'.req.transaction_type = TRANSFER
           /\ BadTransfer(DB, last'.user, last'.req))
          => (last'.status \in {400, 404} /\ transactions' = transactions)
       /\ (/\ last'.op = "update_transaction"
           /\ last'.old # NoRow
           /\ Requested(last'.req, last'.old).transaction_type = TRANSFER
           /\ BadTransfer(DB, last'.user, Requested(last'.req, last'.old)))
          => (last'.status \in {400, 404} /\ transactions' = transactions)
      ]_vars

\* The sum of the budget deltas of the stored posted transactions ids that
\* resolve to allocation i (for their owner) and are dated inside its
\* current window.
RECURSIVE WindowSum(_, _, _)
WindowSum(db, i, ids) ==
    IF ids = {} THEN 0
    ELSE LET id == CHOOSE x \in ids : TRUE
             t == db.transactions[id]
         IN (IF /\ i \in ResolvedSet(db, t.user_id, t)
                /\ InPeriod(db.allocations[i], t.transaction_date)
             THEN (IF t.transaction_type = DEBIT THEN t.amount ELSE 0 - t.amount)
             ELSE 0)
            + WindowSum(db, i, ids \ {id})

\* Allocation i's current_amount is the sum over its window.
WindowConsistent(db, i) ==
    db.allocations[i].current_amount = WindowSum(db, i, DOMAIN db.transactions)

BudgetAllocations(db) ==
    {i \in 1..Len(db.allocations) : db.allocations[i].allocation_type = BUDGET}

\* The rows a transaction step reverses and applies: the stored row before
\* it, and the stored row after it.
StepRows ==
    (IF last'.old # NoRow THEN {last'.old} ELSE {})
    \cup (IF /\ last'.status = 200
             /\ last'.op \in {"create_transaction", "update_transaction"}
          THEN {transactions'[last'.id]} ELSE {})

\* The step is made by the owner of its rows, and for allocation i either
\* every row of the step that resolves to it is dated inside its current
\* window, or the window is unset and no stored transaction resolves to it.
StepInsideWindow(i) ==
    /\ \A row \in StepRows : row.user_id = last'.user
    /\ \/ \A row \in StepRows :
             i \in ResolvedSet(DB, row.user_id, row)
                => InPeriod(allocations[i], row.transaction_date)
       \/ /\ (allocations[i].period_start = NoDate
                \/ allocations[i].period_end = NoDate)
          /\ \A id \in DOMAIN transactions :
                i \notin ResolvedSet(DB, transactions[id].user_id, transactions[id])

\* C12 as stated: each budget allocation's current_amount equals the sum of
\* the budget deltas of the posted transactions that resolve to it and are
\* dated inside its current window, after any sequence of transaction
\* creates, updates and deletes with arbitrary dates.  Stated as the
\* preservation of that equality by every such request, so that it does not
\* depend on the amount an allocation starts with.
C12_WindowSumPreserved ==
    [][last'.op \in TransactionOps
         => \A i \in BudgetAllocations(DB) :
               WindowConsistent(DB, i) => WindowConsistent(DBNext, i)]_vars

\* C12 amended: a transaction create, update or delete by the rows' owner
\* preserves the equality for an allocation when the dates it reverses and
\* applies lie inside the allocation's current window (or the window is
\* unset and nothing resolves to the allocation yet).
C12_WindowSumPreservedInWindow ==
    [][last'.op \in TransactionOps
         => \A i \in BudgetAllocations(DB) :
               (WindowConsistent(DB, i) /\ StepInsideWindow(i))
                  => WindowConsistent(DBNext, i)]_vars

\* C12 witness: two posted debits of 2 dated in January were added to the
\* allocation that started unset: January window, current_amount 4.
C12_Witness ==
    /\ last.op = "create_transaction" /\ last.status = 200
    /\ allocations[1].period_start = P_JAN
    /\ allocations[1].current_amount = 4
    /\ WindowSum(DB, 1, DOMAIN transactions) = 4
    /\ Cardinality(DOMAIN transactions) = 2

\* The reference instant of the last call of the roller: the reference it
\* was given, or the clock's reading when it was given none.
ReferenceInstant == IF last.req = NoDate THEN clock ELSE last.req

\* C13: after the roller ran on a budget allocation with reference r,
\* period_start <= r < period_end, for every frequency (unset as monthly)
\* and every prior bounds: unset, r far ahead, r far behind, and period_end
\* at or before period_start.
C13_ReferenceInsidePeriod ==
    last.op = "_ensure_budget_period" => InPeriod(allocations[1], ReferenceInstant)

\* C13 witness: the roller ran on a weekly allocation whose stored
\* period_end lay before its period_start, with a reference 35 weeks before
\* them, and the window it left is the week holding the reference.
C13_Witness ==
    /\ last.op = "_ensure_budget_period"
    /\ last.old.period_start = P_FEB /\ last.old.period_end = P_JAN
    /\ last.old.period_frequency = WEEKLY
    /\ last.req = DT(2023, 6, 3, 5)
    /\ allocations[1].period_start = DT(2023, 6, 1, 0)
    /\ allocations[1].period_end = DT(2023, 6, 8, 0)

\* C14: the roller sets current_amount to 0 exactly when it changed the
\* period (it initialised unset bounds, or rolled at least once, which is
\* when the reference was outside the stored window); when the reference
\* already lies in [period_start, period_end) the allocation is as before.
C14_ResetIffPeriodChanged ==
    last.op = "_ensure_budget_period"
      => IF InPeriod(last.old, ReferenceInstant)
         THEN allocations[1] = last.old
         ELSE /\ allocations[1].current_amount = 0
              /\ ~SamePeriod(allocations[1], last.old)

\* C14 witness: a running total of 150 survived a call with the reference
\* inside the window, after an earlier call did not roll either.
C14_Witness ==
    /\ last.op = "_ensure_budget_period" /\ nops = 2
    /\ InPeriod(last.old, ReferenceInstant)
    /\ last.old.current_amount = 150
    /\ allocations[1].current_amount = 150

\* The allocations the resolver returns for a request of a caller.
Resolves(db, user, req) ==
    LET ids == _get_budget_allocations_for_transaction(
                   db, user, req.allocation_id, req.category_id)
    IN {ids[k] : k \in 1..Len(ids)}

\* A successful create of a posted debit dated at or after the period_end
\* of allocation i, which it resolves to.
ForwardDatedDebit(i) ==
    /\ last'.op = "create_transaction" /\ last'.status = 200
    /\ last'.req.transaction_type = DEBIT /\ last'.req.is_posted
    /\ i \in Resolves(DB, last'.user, last'.req)
    /\ allocations[i].period_start # NoDate
    /\ allocations[i].period_end # NoDate
    /\ Key(last'.req.transaction_date) >= Key(allocations[i].period_end)

\* C15 as stated: applying a posted debit dated at or after the
\* allocation's period_end rolls the period forward to the one that holds
\* the date and resets current_amount before it adds the delta: the
\* resulting current_amount is the debit's amount, whatever it was before.
C15_ForwardDebitRestartsAmount ==
    [][\A i \in 1..Len(allocations) :
          ForwardDatedDebit(i)
            => /\ InPeriod(allocations'[i], last'.req.transaction_date)
               /\ allocations'[i].current_amount = last'.req.amount]_vars

\* C15 amended: the same for a debit with a non-zero amount; a debit of
\* amount 0 has no delta and leaves the allocation as it was.
C15_ForwardNonZeroDebitRestartsAmount ==
    [][\A i \in 1..Len(allocations) :
          ForwardDatedDebit(i)
            => IF last'.req.amount # 0
               THEN /\ InPeriod(allocations'[i], last'.req.transaction_date)
                    /\ allocations'[i].current_amount = last'.req.amount
               ELSE allocations'[i] = allocations[i]]_vars

\* C15 witness: the allocation held 150 in [2024-01-01, 2024-02-01); a
\* posted debit of 3 dated 2024-02-15 left [2024-02-01, 2024-03-01) and 3.
C15_Witness ==
    /\ last.op = "create_transaction" /\ last.status = 200 /\ nops = 1
    /\ last.req.transaction_type = DEBIT /\ last.req.is_posted
    /\ last.req.transaction_date = D2 /\ last.req.amount = 3
    /\ allocations[1].period_frequency = MONTHLY
    /\ allocations[1].period_start = P_FEB
    /\ allocations[1].period_end = P_MAR
    /\ allocations[1].current_amount = 3

\* Category c is in the allocation's configuration.category_ids after
\* integer coercion, non-numeric entries ignored.
ListsCategory(allocation, c) ==
    \E k \in 1..Len(allocation.category_ids) :
        /\ allocation.category_ids[k].numeric
        /\ allocation.category_ids[k].val = c

\* A successful create of a posted debit tagged with a category and no
\* explicit allocation_id.
CategoryDebit ==
    /\ last'.op = "create_transaction" /\ last'.status = 200
    /\ last'.req.transaction_type = DEBIT /\ last'.req.is_posted
    /\ last'.req.category_id # None /\ last'.req.allocation_id = None

\* C16 as stated: a budget allocation (of the caller) whose category_ids
\* contains c has its current_amount increased by the amount of a posted
\* debit tagged category_id = c without an allocation_id, and an allocation
\* is left entirely unchanged by such a debit tagged with a category that
\* is not in its list.
C16_CategoryDebitAddsAmount ==
    [][CategoryDebit
         => \A i \in 1..Len(allocations) :
               IF ListsCategory(allocations[i], last'.req.category_id)
               THEN (allocations[i].allocation_type = BUDGET
                       /\ allocations[i].user_id = last'.user)
                      => allocations'[i].current_amount
                           = allocations[i].current_amount + last'.req.amount
               ELSE allocations'[i] = allocations[i]]_vars

\* C16 amended: the amount is added to the running total when the debit's
\* date lies inside the allocation's current window (or the amount is 0);
\* a debit dated outside it, or the first one of an allocation without a
\* window, leaves the allocation in the period of its date with the amount
\* alone.  An allocation that does not list the category is unchanged.
C16_CategoryDebitAddsAmountInWindow ==
    [][CategoryDebit
         => \A i \in 1..Len(allocations) :
               IF ListsCategory(allocations[i], last'.req.category_id)
               THEN (allocations[i].allocation_type = BUDGET
                       /\ allocations[i].user_id = last'.user)
                      => IF \/ last'.req.amount = 0
                            \/ InPeriod(allocations[i], last'.req.transaction_date)
                         THEN allocations'[i] =
                                [allocations[i] EXCEPT
                                   !.current_amount = @ + last'.req.amount]
                         ELSE /\ InPeriod(allocations'[i], last'.req.transaction_date)
                              /\ allocations'[i].current_amount = last'.req.amount
               ELSE allocations'[i] = allocations[i]]_vars

\* C16 witness: category_ids is 5, a non-numeric entry, 7; a posted debit
\* of 2 tagged category 7 and dated inside the window made 150 into 152.
C16_Witness ==
    /\ last.op = "create_transaction" /\ last.status = 200 /\ nops = 1
    /\ last.req.transaction_type = DEBIT /\ last.req.category_id = 7
    /\ last.req.allocation_id = None
    /\ ~allocations[1].category_ids[2].numeric
    /\ allocations[1].period_start = P_JAN
    /\ allocations[1].current_amount = 152

\* C17 as stated: resolution returns each allocation at most once, and only
\* budget allocations owned by the transaction's user.  On a transaction
\* step, every allocation that changes is a budget allocation of the user
\* who owns the step's rows; an allocation matched by the explicit
\* allocation_id and by its category list gets the delta of a create once;
\* an explicit allocation_id that names a savings allocation or another
\* user's allocation changes nothing.
C17_ResolvedOnceAndOwned ==
    [][last'.op \in TransactionOps
         => \A i \in 1..Len(allocations) :
               allocations'[i] # allocations[i]
                 => /\ allocations[i].allocation_type = BUDGET
                    /\ \A row \in StepRows : row.user_id = allocations[i].user_id
                    /\ last'.op = "create_transaction"
                         => allocations'[i].current_amount
                              = (IF InPeriod(allocations[i], last'.req.transaction_date)
                                 THEN allocations[i].current_amount ELSE 0)
                                + _budget_delta_for_transaction(
                                      last'.req.transaction_type, last'.req.amount)
      ]_vars

\* C18: the budget delta is +amount for a debit, -amount for a credit and 0
\* for a transfer; so no create, update or delete of a transaction that is
\* a transfer (before and after the request) changes any allocation's
\* current_amount, period_start or period_end.
C18_TransfersLeaveBudgets ==
    [][/\ \A amount \in 0..3 :
             /\ _budget_delta_for_transaction(DEBIT, amount) = amount
             /\ _budget_delta_for_transaction(CREDIT, amount) = 0 - amount
             /\ _budget_delta_for_transaction(TRANSFER, amount) = 0
       /\ (/\ last'.op \in TransactionOps
           /\ \A row \in StepRows : row.transaction_type = TRANSFER)
            => allocations' = allocations]_vars

\* C18 witness: a posted transfer tagged category 5 and allocation 1 and
\* dated outside the allocation's window was created and then deleted, and
\* the allocation still holds 150 in January.
C18_Witness ==
    /\ last.op = "delete_transaction" /\ last.status = 200 /\ nops = 2
    /\ last.old.transaction_type = TRANSFER /\ last.old.is_posted
    /\ last.old.category_id = 5 /\ last.old.allocation_id = 1
    /\ last.old.transaction_date = D2
    /\ allocations[1].current_amount = 150
    /\ allocations[1].period_start = P_JAN

\* The request names a budget entry: a create with a budget_entry_id, or an
\* update whose body sets budget_entry_id to a value.
LinksEntry ==
    /\ \/ last'.op = "create_transaction"
       \/ last'.op = "update_transaction" /\ "budget_entry_id" \in last'.req.set
    /\ last'.req.budget_entry_id # None

\* C19: a create or update with a budget_entry_id owned by the caller
\* stores is_recurring = true and recurrence_frequency = the entry's
\* cadence; an update that sets budget_entry_id to null stores
\* is_recurring = false and no recurrence_frequency; a budget_entry_id that
\* does not exist or is another user's fails with 404 and stores nothing.
C19_RecurrenceFollowsEntry ==
    [][/\ (LinksEntry /\ last'.status = 200)
            => /\ last'.req.budget_entry_id \in DOMAIN budget_entries
               /\ budget_entries[last'.req.budget_entry_id].user_id = last'.user
               /\ transactions'[last'.id].budget_entry_id = last'.req.budget_entry_id
               /\ transactions'[last'.id].is_recurring
               /\ transactions'[last'.id].recurrence_frequency
                    = budget_entries[last'.req.budget_entry_id].cadence
       /\ (/\ LinksEntry
           /\ ~(/\ last'.req.budget_entry_id \in DOMAIN budget_entries
                /\ budget_entries[last'.req.budget_entry_id].user_id = last'.user))
            => (last'.status = 404 /\ transactions' = transactions)
       /\ (/\ last'.op = "update_transaction" /\ last'.status = 200
           /\ "budget_entry_id" \in last'.req.set
           /\ last'.req.budget_entry_id = None)
            => /\ transactions'[last'.id].budget_entry_id = None
               /\ ~transactions'[last'.id].is_recurring
               /\ transactions'[last'.id].recurrence_frequency = NoCadence
      ]_vars

\* C19 witness: a transaction linked to budget entry 1 (recurring, monthly)
\* was updated with budget_entry_id null and is_recurring true in the body,
\* and is stored as not recurring.
C19_Witness ==
    /\ last.op = "update_transaction" /\ last.status = 200
    /\ last.old.budget_entry_id = 1 /\ last.old.is_recurring
    /\ last.old.recurrence_frequency = "monthly"
    /\ "budget_entry_id" \in last.req.set /\ last.req.budget_entry_id = None
    /\ last.req.is_recurring
    /\ ~transactions[last.id].is_recurring
    /\ transactions[last.id].recurrence_frequency = NoCadence

\* C20: is_recurring and recurrence_frequency are derived: after any
\* sequence of transaction creates and updates (whatever is_recurring and
\* recurrence_frequency the client sends) and budget-entry deletes, every
\* stored transaction has is_recurring = true exactly when its
\* budget_entry_id is non-null, and a recurrence_frequency exactly when
\* is_recurring is true.
C20_RecurrenceDerived ==
    \A id \in DOMAIN transactions :
        /\ transactions[id].is_recurring <=> transactions[id].budget_entry_id # None
        /\ transactions[id].recurrence_frequency # NoCadence
             <=> transactions[id].is_recurring

\* ---------------------------------------------------------------------------
\* C21: a created transaction whose request omits currency stores the
\* currency of its primary account (of the destination account for a
\* transfer); projected_currency and original_currency, when omitted, are
\* that account's currency when the matching amount is present and null
\* otherwise.
DefaultCurrency(req) ==
    accounts[IF req.transaction_type = TRANSFER
             THEN req.transfer_to_account_id ELSE req.account_id].currency

C21_OmittedCurrencyDefaults ==
    [][(/\ last'.op = "create_transaction"
        /\ last'.status = 200
        /\ last'.req.currency = NoCurrency) =>
         \A req \in {last'.req} : \A row \in {transactions'[last'.id]} :
            /\ row.currency = DefaultCurrency(req)
            /\ req.projected_currency = NoCurrency =>
                  row.projected_currency =
                     IF req.projected_amount # None
                     THEN DefaultCurrency(req) ELSE NoCurrency
            /\ req.original_currency = NoCurrency =>
                  row.original_currency =
                     IF req.original_amount # None
                     THEN DefaultCurrency(req) ELSE NoCurrency]_vars

\* ---------------------------------------------------------------------------
\* C22: a transaction request of user U that targets a transaction of another
\* user answers 404, and no transaction request of U changes a transaction,
\* an account (its balance included) or an allocation of another user.
ForeignTo(rows, U) == {i \in DOMAIN rows : rows[i].user_id # U}

C22_NoForeignAccess ==
    [][last'.op \in TransactionOps =>
         \A U \in {last'.user} :
            /\ (/\ last'.op = "delete_transaction"
                /\ last'.req \in ForeignTo(transactions, U)) => last'.status = 404
            /\ \A id \in ForeignTo(transactions, U) :
                  id \in DOMAIN transactions' /\ transactions'[id] = transactions[id]
            /\ \A a \in ForeignTo(accounts, U) : accounts'[a] = accounts[a]
            /\ \A a \in ForeignTo(allocations, U) : allocations'[a] = allocations[a]]_vars

\* ---------------------------------------------------------------------------
\* C23: for the owner of an account, and whatever order the query gives rows
\* of equal date, the balance history has exactly one entry per posted
\* transaction affecting the account and none for any other, the entries come
\* in non-decreasing transaction_date order, each entry's balance is the sum
\* of the signed effects of the entries up to and including it,
\* calculated_balance is the last entry's balance (0 without entries) and it
\* equals current_balance.
SelectedIds(db, account_id) ==
    {i \in DOMAIN db.transactions : Touches(db.transactions[i], account_id)}

AffectingIds(db, account_id) ==
    {i \in DOMAIN db.transactions :
        /\ db.transactions[i].is_posted
        /\ \/ /\ db.transactions[i].transaction_type \in {DEBIT, CREDIT}
              /\ db.transactions[i].account_id = account_id
           \/ /\ db.transactions[i].transaction_type = TRANSFER
              /\ account_id \in {db.transactions[i].transfer_from_account_id,
                                  db.transactions[i].transfer_to_account_id}}

HistoryAsClaimed(db, account_id, r) ==
    /\ r.status = 200
    /\ Len(r.balance_history) = Cardinality(AffectingIds(db, account_id))
    /\ {r.balance_history[k].transaction_id : k \in 1..Len(r.balance_history)}
          = AffectingIds(db, account_id)
    /\ \A k \in 1..Len(r.balance_history) :
          /\ r.balance_history[k].date
                = db.transactions[r.balance_history[k].transaction_id].transaction_date
          /\ k > 1 => Key(r.balance_history[k - 1].date) <= Key(r.balance_history[k].date)
          /\ r.balance_history[k].balance
                = SumEffects(db.transactions,
                             {r.balance_history[j].transaction_id : j \in 1..k},
                             account_id)
    /\ r.calculated_balance
          = SumEffects(db.transactions, AffectingIds(db, account_id), account_id)
    /\ r.calculated_balance = r.current_balance

C23_BalanceHistory ==
    \A a \in 1..Len(accounts) :
       \A order \in DateOrders(transactions, SelectedIds(DB, a)) :
          HistoryAsClaimed(DB, a, get_account_balance(DB, accounts[a].user_id, a, order))

\* Account 1 is touched by a posted row stored before an earlier-dated
\* posted row: the history lists the second row first.
C23_Witness ==
    \E order \in DateOrders(transactions, SelectedIds(DB, 1)) :
       \E r \in {get_account_balance(DB, 1, 1, order)} :
          /\ Len(r.balance_history) = 2
          /\ r.balance_history[1].transaction_id > r.balance_history[2].transaction_id
          /\ r.balance_history[2].balance # r.balance_history[1].balance
          /\ r.calculated_balance # 0

\* ---------------------------------------------------------------------------
\* A successful create of a posted debit or credit dated before the
\* period_start of allocation i, which it resolves to.
BackDated(i) ==
    /\ last'.op = "create_transaction" /\ last'.status = 200
    /\ last'.req.transaction_type \in {DEBIT, CREDIT} /\ last'.req.is_posted
    /\ i \in Resolves(DB, last'.user, last'.req)
    /\ allocations[i].period_start # NoDate
    /\ allocations[i].period_end # NoDate
    /\ Key(last'.req.transaction_date) < Key(allocations[i].period_start)

\* The monthly period of after is the one of before moved back by a whole
\* number of months, and it holds the date.
RolledBackTo(before, after, date) ==
    /\ InPeriod(after, date)
    /\ \E n \in 1..12 :
          /\ after.period_start = _add_months(before.period_start, 0 - n)
          /\ after.period_end = _add_months(before.period_end, 0 - n)

\* C24 as stated: a posted debit or credit dated before the allocation's
\* period_start moves the period back by whole periods to the one holding
\* the date, and leaves the delta alone as current_amount: what the later
\* period had gathered is gone.
C24_BackDatedRestartsAmount ==
    [][\A i \in 1..Len(allocations) :
          BackDated(i)
            => /\ RolledBackTo(allocations[i], allocations'[i],
                               last'.req.transaction_date)
               /\ allocations'[i].current_amount
                    = _budget_delta_for_transaction(last'.req.transaction_type,
                                                    last'.req.amount)]_vars

\* C24 amended: the same for a non-zero amount; a debit or credit of amount 0
\* has no delta and leaves the allocation as it was, in the later period and
\* with its progress.
C24_BackDatedNonZeroRestartsAmount ==
    [][\A i \in 1..Len(allocations) :
          BackDated(i)
            => IF last'.req.amount # 0
               THEN /\ RolledBackTo(allocations[i], allocations'[i],
                                    last'.req.transaction_date)
                    /\ allocations'[i].current_amount
                         = _budget_delta_for_transaction(last'.req.transaction_type,
                                                         last'.req.amount)
               ELSE allocations'[i] = allocations[i]]_vars

\* C24 witness: a debit dated 2024-02-15 had moved the allocation to
\* [2024-02-01, 2024-03-01) with a non-zero current_amount; a posted credit
\* of 2 dated 2024-01-15 left [2024-01-01, 2024-02-01) and -2.
C24_Witness ==
    /\ last.op = "create_transaction" /\ last.status = 200 /\ nops = 2
    /\ last.req.transaction_type = CREDIT /\ last.req.is_posted
    /\ last.req.transaction_date = D1 /\ last.req.amount = 2
    /\ DOMAIN transactions = {1, 2}
    /\ transactions[1].transaction_date = D2 /\ transactions[1].is_posted
    /\ transactions[1].transaction_type = DEBIT /\ transactions[1].amount = 3
    /\ transactions[1].category_id = 5
    /\ allocations[1].period_start = P_JAN
    /\ allocations[1].period_end = P_FEB
    /\ allocations[1].current_amount = 0 - 2

\* ---------------------------------------------------------------------------
\* The start of the period holding the reference, as the claim words it.
PeriodStartOf(reference, frequency) ==
    LET midnight == [reference EXCEPT !.h = 0]
    IN CASE frequency = DAILY -> midnight
         [] frequency = WEEKLY ->
              AddDays(midnight,
                      0 - (CHOOSE k \in 0..6 : Weekday(AddDays(midnight, 0 - k)) = 0))
         [] frequency = QUARTERLY ->
              DT(reference.y,
                 CHOOSE q \in {1, 4, 7, 10} : q <= reference.m /\ reference.m <= q + 2,
                 1, 0)
         [] OTHER -> DT(reference.y, reference.m, 1, 0)

\* One period length after a period start.
PeriodEndOf(start, frequency) ==
    CASE frequency = DAILY -> AddDays(start, 1)
      [] frequency = WEEKLY -> AddDays(start, 7)
      [] frequency = QUARTERLY ->
           IF start.m = 10 THEN DT(start.y + 1, 1, 1, 0)
           ELSE DT(start.y, start.m + 3, 1, 0)
      [] OTHER -> IF start.m = 12 THEN DT(start.y + 1, 1, 1, 0)
                  ELSE DT(start.y, start.m + 1, 1, 0)

\* C25: when period_start or period_end is unset, the roller leaves
\* period_start at the start of the period holding the reference (midnight
\* of the day, the Monday, the first of the month, the first of the quarter;
\* the month when the frequency is unset), period_end one period length
\* later, and current_amount 0.
C25_UnsetBoundsInitialised ==
    (/\ last.op = "_ensure_budget_period"
     /\ (last.old.period_start = NoDate \/ last.old.period_end = NoDate))
      => /\ allocations[1].period_start
              = PeriodStartOf(ReferenceInstant, last.old.period_frequency)
         /\ allocations[1].period_end
              = PeriodEndOf(allocations[1].period_start, last.old.period_frequency)
         /\ allocations[1].current_amount = 0
         /\ Weekday(PeriodStartOf(ReferenceInstant, WEEKLY)) = 0

\* C25 witness: a weekly allocation with period_end unset and 150 gathered,
\* rolled for Thursday 2024-02-15: [Monday 2024-02-12, 2024-02-19) and 0.
C25_Witness ==
    /\ last.op = "_ensure_budget_period"
    /\ last.old.period_start = P_JAN /\ last.old.period_end = NoDate
    /\ last.old.period_frequency = WEEKLY /\ last.old.current_amount = 150
    /\ last.req = D2
    /\ allocations[1].period_start = DT(2024, 2, 12, 0)
    /\ allocations[1].period_end = DT(2024, 2, 19, 0)
    /\ allocations[1].current_amount = 0

\* ---------------------------------------------------------------------------
\* The row has a zero budget delta, or resolves to no allocation for the
\* caller.
Quiet(db, user, row) ==
    \/ row.transaction_type = TRANSFER
    \/ row.amount = 0
    \/ Resolves(db, user, row) = {}

\* C26: a create whose row has a zero delta or resolves to no allocation, a
\* delete of such a row, and an update from such a row to such a row, change
\* no allocation (period_start, period_end and current_amount included) and
\* stamp no allocation's updated_at, wherever the transaction_date lies.
C26_ZeroDeltaIsNoOp ==
    [][(last'.op \in TransactionOps /\ last'.status = 200) =>
         ((CASE last'.op = "create_transaction" -> Quiet(DB, last'.user, last'.req)
             [] last'.op = "delete_transaction" -> Quiet(DB, last'.user, last'.old)
             [] OTHER -> /\ Quiet(DB, last'.user, last'.old)
                         /\ Quiet(DB, last'.user, transactions'[last'.id]))
            => (allocations' = allocations /\ last'.stamped = {}))]_vars

\* C26 witness: a posted transfer tagged category 5 and allocation 1, dated
\* 2024-02-15, was created while allocation 1 held 150 in January: the
\* allocation still holds 150 in January.
C26_Witness ==
    /\ last.op = "create_transaction" /\ last.status = 200 /\ nops = 1
    /\ last.req.transaction_type = TRANSFER /\ last.req.is_posted
    /\ last.req.category_id = 5 /\ last.req.allocation_id = 1
    /\ last.req.transaction_date = D2
    /\ last.stamped = {}
    /\ allocations[1].period_start = P_JAN /\ allocations[1].period_end = P_FEB
    /\ allocations[1].current_amount = 150

\* ---------------------------------------------------------------------------
\* What the session's request adds to the balance of account a, and to the
\* current_amount of the allocation of category 5, when it runs alone.
SpendingOf(t) ==
    IF ~t.is_posted THEN 0
    ELSE IF t.transaction_type = DEBIT THEN t.amount
    ELSE IF t.transaction_type = CREDIT THEN 0 - t.amount
    ELSE 0

RequestEffect(session, a) ==
    CASE session.op = "create_transaction" -> LedgerEffect(session.req, a)
      [] session.op = "delete_transaction" ->
           0 - LedgerEffect(session.transactions[session.id], a)
      [] OTHER ->
           LedgerEffect([session.transactions[session.id]
                            EXCEPT !.amount = session.req.amount], a)
             - LedgerEffect(session.transactions[session.id], a)

RequestDelta(session) ==
    CASE session.op = "create_transaction" -> SpendingOf(session.req)
      [] session.op = "delete_transaction" ->
           0 - SpendingOf(session.transactions[session.id])
      [] OTHER ->
           SpendingOf([session.transactions[session.id]
                          EXCEPT !.amount = session.req.amount])
             - SpendingOf(session.transactions[session.id])

\* C27: two transaction requests in progress together both commit, and when
\* the one that commits second had loaded an account row (an allocation row)
\* both change before the first one committed, the stored balance
\* (current_amount) is the value before both plus the second request's
\* effect alone: the first request's effect is lost.  When it loaded the row
\* after the first commit, both effects are there.
C27_LostUpdate ==
    \A p, q \in Sessions :
       (/\ sessions[p].pc = "done" /\ sessions[q].pc = "done"
        /\ sessions[p].committed_at < sessions[q].committed_at)
         => /\ last.status = 200 /\ nops = 2
            /\ \A a \in 1..Len(accounts) :
                  (RequestEffect(sessions[p], a) # 0 /\ RequestEffect(sessions[q], a) # 0)
                    => accounts[a].balance
                         = LedgerEffect(SeedRequest, a) + RequestEffect(sessions[q], a)
                            + (IF sessions[q].loaded_at < sessions[p].committed_at
                               THEN 0 ELSE RequestEffect(sessions[p], a))
            /\ (RequestDelta(sessions[p]) # 0 /\ RequestDelta(sessions[q]) # 0)
                 => allocations[1].current_amount
                      = 150 + SpendingOf(SeedRequest) + RequestDelta(sessions[q])
                         + (IF sessions[q].allocations_loaded_at
                                  < sessions[p].committed_at
                            THEN 0 ELSE RequestDelta(sessions[p]))

\* C27 witness: with autoflush on, two posted debits of 2 and 3 on account 1
\* (balance -2 before) were created together and both are stored: the
\* balance is -5, not -7, while the allocation, loaded after the first
\* commit, counts both.
C27_Witness ==
    /\ \A s \in Sessions : /\ sessions[s].pc = "done"
                            /\ sessions[s].autoflush
                            /\ sessions[s].op = "create_transaction"
                            /\ sessions[s].req.transaction_type = DEBIT
                            /\ sessions[s].req.account_id = 1
    /\ sessions[1].req.amount = 2 /\ sessions[2].req.amount = 3
    /\ sessions[1].committed_at = 1 /\ sessions[2].committed_at = 2
    /\ DOMAIN transactions = {1, 2, 3}
    /\ transactions[2].amount = 2 /\ transactions[3].amount = 3
    /\ accounts[1].balance = 0 - 5
    /\ allocations[1].current_amount = 157

\* ---------------------------------------------------------------------------
\* C28: every stored transfer has account_id equal to
\* transfer_from_account_id, both transfer accounts set, and the two
\* different.
C28_StoredTransfersWellFormed ==
    \A id \in DOMAIN transactions :
        transactions[id].transaction_type = TRANSFER
          => /\ transactions[id].transfer_from_account_id # None
             /\ transactions[id].transfer_to_account_id # None
             /\ transactions[id].account_id = transactions[id].transfer_from_account_id
             /\ transactions[id].transfer_from_account_id
                  # transactions[id].transfer_to_account_id

\* C28 witness: a debit on account 1 was updated to a transfer from account 2
\* to account 1 by a body that also sent account_id 1: the stored transfer
\* has account_id 2.
C28_Witness ==
    /\ last.op = "update_transaction" /\ last.status = 200
    /\ last.old.transaction_type = DEBIT /\ last.old.account_id = 1
    /\ "account_id" \in last.req.set /\ last.req.account_id = 1
    /\ transactions[last.id].transaction_type = TRANSFER
    /\ transactions[last.id].transfer_from_account_id = 2
    /\ transactions[last.id].transfer_to_account_id = 1
    /\ transactions[last.id].account_id = 2

\* ---------------------------------------------------------------------------
\* C29: the current_amount of every allocation is at least 0, as the
\* allocation schemas require (ge=0).
C29_CurrentAmountNotNegative ==
    \A i \in 1..Len(allocations) : allocations[i].current_amount >= 0

\* ---------------------------------------------------------------------------
\* C30: every call of the roller returns: each iteration of the forward loop
\* puts period_end strictly later, and no further beyond the reference than
\* one step from a bound at or before it; each iteration of the backward loop
\* puts period_start strictly earlier; and a call that entered the loops
\* leaves them.
C30_RollerTerminates ==
    /\ [][/\ ForwardIteration
             => /\ Key(frame'.period_end) > Key(frame.period_end)
                /\ Key(frame.period_end) <= Key(frame.normalized_reference)
          /\ BackwardIteration
             => /\ Key(frame'.period_start) < Key(frame.period_start)
                /\ Key(frame.period_start) > Key(frame.normalized_reference)]_vars
    /\ (frame.pc = "forward") ~> (frame.pc = "returned")

\* C30 witness: a monthly allocation stored with [2024-01-31 18:00,
\* 2024-02-29 18:00), the end clamped from the 31st, called for 2026-06-30
\* 23:00, returned after 29 iterations with [2026-06-28 18:00, 2026-07-28
\* 18:00): the day stays at the 28th once February 2025 clamped it.
C30_Witness ==
    /\ frame.pc = "returned"
    /\ last.old.period_start = DT(2024, 1, 31, 18)
    /\ last.old.period_frequency = MONTHLY
    /\ last.req = DT(2026, 6, 30, 23)
    /\ frame.iterations = 29
    /\ allocations[1].period_start = DT(2026, 6, 28, 18)
    /\ allocations[1].period_end = DT(2026, 7, 28, 18)

====
